---- MODULE Spec2Model ----
(***************************************************************************)
(* Model of the labberreader package of ccukit: the LabberHDF container    *)
(* reader with its step-config decoder (core.py) and the experiment        *)
(* objects built on it (vnaxany.py, SAxANY.py, vnaxdc.py).                 *)
(* The last sections model the sweep threads of the YOKOGAWA driver of     *)
(* the visadriver package (yokogawa.py).                                   *)
(*                                                                         *)
(* Numbers.  Python floats and Decimals are modelled as exact rationals,   *)
(* a normalised pair <<n, d>> with d > 0 and gcd(n, d) = 1.  The raw       *)
(* values of a container are small integers, so every quantity the code    *)
(* derives from them is such a rational.                                   *)
(***************************************************************************)
EXTENDS Integers, Sequences, FiniteSets, TLC

VARIABLES file, exp, ret, debg, decoded, yoko

vars == <<file, exp, ret, debg, decoded, yoko>>

-----------------------------------------------------------------------------
(* Bounds of the model. *)

MaxRaw == 2

MaxStart == 5

MaxSpan == 3

MaxStep == 2

MaxPts == 5

MaxRecords == 2

MaxVal == 2

MaxSamples == 3

MaxTraces == 3

MaxDecodes == 2

MaxLevel == 3

MaxDelta == 2

-----------------------------------------------------------------------------
(* Arithmetic on rationals. *)

Abs(x) == IF x < 0 THEN -x ELSE x

RECURSIVE GCD(_, _)
GCD(a, b) == IF b = 0 THEN a ELSE GCD(b, a % b)

Norm(n, d) ==
    LET g == GCD(Abs(n), Abs(d))
        s == IF d < 0 THEN -1 ELSE 1
    IN  <<(s * n) \div g, (s * d) \div g>>

R(k) == <<k, 1>>

RAdd(a, b) == Norm(a[1] * b[2] + b[1] * a[2], a[2] * b[2])

RSub(a, b) == Norm(a[1] * b[2] - b[1] * a[2], a[2] * b[2])

RMul(a, b) == Norm(a[1] * b[1], a[2] * b[2])

RDiv(a, b) == Norm(a[1] * b[2], a[2] * b[1])

RAbs(a) == <<Abs(a[1]), a[2]>>

RLt(a, b) == a[1] * b[2] < b[1] * a[2]

RGt(a, b) == RLt(b, a)

IsZero(a) == a[1] = 0

(* Python's round(x) on a float: to the nearest integer, a tie to the even one. *)
PyRound(a) ==
    LET fl  == a[1] \div a[2]
        rem == a[1] - fl * a[2]
    IN  IF 2 * rem < a[2] THEN fl
        ELSE IF 2 * rem > a[2] THEN fl + 1
        ELSE IF fl % 2 = 0 THEN fl ELSE fl + 1

(* Python's int(x) on a float: truncation toward zero. *)
PyInt(a) == IF a[1] >= 0 THEN a[1] \div a[2] ELSE -((-a[1]) \div a[2])

-----------------------------------------------------------------------------
(* Exceptions.  A call that raises yields an Error value; exc is the       *)
(* exception class and args its arguments (the message or the key).        *)

Error(exc, args) == [tag |-> "Error", exc |-> exc, args |-> args]

IsError(v) == "tag" \in DOMAIN v /\ v.tag = "Error"

-----------------------------------------------------------------------------
(* LabberHDF: the step-config decoder (core.py).                           *)
(*                                                                         *)
(* A container (file) holds                                                *)
(*   stepconfig : the groups under 'Step config' in index order, each with *)
(*                its name, its raw 'Step items' fields and its 'Relation  *)
(*                parameters' fields;                                      *)
(*   steplist   : the rows of 'Step list' by channel name (use_relations,  *)
(*                equation);                                               *)
(*   traces     : the names under 'Traces';                                *)
(*   t0, dt, npts, ntrc : the first row of the trace's _t0dt dataset and   *)
(*                the shape of the trace dataset.                          *)

(* enum_mapping of get_stepconfig_by_index. *)
enum_mapping ==
    [range_type |-> (0 :> "Single" @@ 1 :> "Start - Stop" @@ 2 :> "Center - Span"),
     step_type  |-> (0 :> "Fixed step" @@ 1 :> "Fixed # of pts")]

(* stepconfig_map: index -> name, indices 0..n-1. *)
stepconfig_map(f) == [i \in 0..(Len(f.stepconfig) - 1) |-> f.stepconfig[i + 1].name]

(* The arithmetic of the Sweep branch, one operator per assignment. *)
startstop_center(start, stop) == RDiv(RAdd(start, stop), R(2))

startstop_span_signed(start, stop) == RSub(stop, start)

startstop_span(start, stop) == RAbs(RSub(stop, start))

centerspan_start_whole(center, span) == RSub(center, span)

centerspan_start(center, span) == RSub(center, RDiv(span, R(2)))

centerspan_stop(center, span) == RAdd(center, RDiv(span, R(2)))

fixedstep_n_pts_intervals(span, step) == PyRound(RDiv(span, step))

fixedstep_n_pts(span, step) == PyRound(RDiv(span, step)) + 1

fixedpts_step(span, n_pts) == RDiv(span, R(n_pts - 1))

(* The step rule of the Sweep branch: start, stop, center and span are     *)
(* already in result_dict, span is also the Decimal the rule divides.      *)
reevaluated_sweep(start, stop, center, span, step_type, raw_step, raw_n_pts) ==
    IF step_type = "Fixed step"
    THEN IF IsZero(raw_step)
         THEN Error("ZeroDivisionError", <<"float division by zero">>)
         ELSE [tag |-> "Sweep", start |-> start, stop |-> stop,
               center |-> center, span |-> span,
               step |-> raw_step,
               n_pts |-> fixedstep_n_pts(span, raw_step)]
    ELSE \* 'Fixed # of pts'
         LET n_pts == PyInt(raw_n_pts)
         IN  IF n_pts - 1 = 0
             THEN Error("ZeroDivisionError", <<"float division by zero">>)
             ELSE [tag |-> "Sweep", start |-> start, stop |-> stop,
                   center |-> center, span |-> span,
                   step |-> fixedpts_step(span, n_pts),
                   n_pts |-> n_pts]

reevaluated_single_raw_step(single) ==
    [tag |-> "Single", single |-> single, start |-> single, stop |-> single,
     center |-> single, span |-> R(0), step |-> R(1), n_pts |-> 1]

(* The Single branch of the decoder. *)
reevaluated_single(single) ==
    [tag |-> "Single", single |-> single, start |-> single, stop |-> single,
     center |-> single, span |-> R(0), step |-> R(0), n_pts |-> 1]

(* The relation branch of the decoder: the f-string, piece by piece. *)
reevaluated_follow(eqation, var_sym, var_name) ==
    [tag |-> "Follow", follow |-> <<eqation, ", ", var_sym, " = ", var_name>>]

(* _get_reevaluated_step_item(step_item_dict, relparm_dict, groupname). *)
get_reevaluated_step_item(f, step_item_dict, relparm_dict, stepconfig_groupname) ==
    LET use_relation == f.steplist[stepconfig_groupname].use_relations
    IN  IF use_relation
        THEN reevaluated_follow(f.steplist[stepconfig_groupname].equation,
                                relparm_dict.variable, relparm_dict.channel_name)
        ELSE LET range_type == step_item_dict.range_type
                 step_type  == step_item_dict.step_type
             IN  IF range_type = "Single"
                 THEN reevaluated_single(step_item_dict.single)
                 ELSE IF range_type = "Start - Stop"
                 THEN LET start == step_item_dict.start
                          stop  == step_item_dict.stop
                      IN  reevaluated_sweep(start, stop,
                              startstop_center(start, stop),
                              startstop_span(start, stop),
                              step_type, step_item_dict.step, step_item_dict.n_pts)
                 ELSE \* 'Center - Span'
                      LET center == step_item_dict.center
                          span   == step_item_dict.span
                      IN  reevaluated_sweep(centerspan_start(center, span),
                              centerspan_stop(center, span), center, span,
                              step_type, step_item_dict.step, step_item_dict.n_pts)

(* The raw 'Step items' row read as floats, enums still numbers. *)
raw_stepitem(g) ==
    [single |-> R(g.single), start |-> R(g.start), stop |-> R(g.stop),
     center |-> R(g.center), span |-> R(g.span), step |-> R(g.step),
     n_pts |-> R(g.n_pts)]

(* get_stepconfig_by_index(index, reevaluate). *)
get_stepconfig_by_index(f, index, reevaluate) ==
    IF index \notin DOMAIN stepconfig_map(f)
    THEN Error("KeyError", <<index>>)
    ELSE
    LET g == f.stepconfig[index + 1]
        stepconfig_groupname == stepconfig_map(f)[index]
        relparm_dict == [variable |-> g.variable, channel_name |-> g.channel_name,
                         use_lookup |-> g.use_lookup]
    IN  IF g.range_type \notin DOMAIN enum_mapping.range_type
        THEN Error("KeyError", <<g.range_type>>)
        ELSE IF g.step_type \notin DOMAIN enum_mapping.step_type
        THEN Error("KeyError", <<g.step_type>>)
        ELSE
        LET stepitem_dict ==
                [tag |-> "Raw",
                 range_type |-> enum_mapping.range_type[g.range_type],
                 step_type  |-> enum_mapping.step_type[g.step_type]]
                @@ raw_stepitem(g)
            items == IF reevaluate
                     THEN get_reevaluated_step_item(f, stepitem_dict, relparm_dict,
                                                    stepconfig_groupname)
                     ELSE stepitem_dict
        IN  IF IsError(items) THEN items
            ELSE [tag |-> "StepConfig", items |-> items, relparm |-> relparm_dict]

(* get_stepconfig_by_name(name, reevaluate): the first index holding name. *)
get_stepconfig_by_name(f, name, reevaluate) ==
    LET hits == {i \in DOMAIN stepconfig_map(f) : stepconfig_map(f)[i] = name}
    IN  IF hits = {}
        THEN Error("Exception", <<"No such step config name">>)
        ELSE get_stepconfig_by_index(f,
                 CHOOSE i \in hits : \A j \in hits : i <= j, reevaluate)

-----------------------------------------------------------------------------
(* numpy arrays.  An array is [shape, data]: data is the element itself    *)
(* for a 0-d result, a function on 0..n-1 for a 1-d array and a function   *)
(* on 0..r-1 of functions on 0..c-1 for a 2-d array.                       *)

Min(a, b) == IF a < b THEN a ELSE b

Max(a, b) == IF a > b THEN a ELSE b

None == "None"

Ok(v) == [tag |-> "Ok", v |-> v]

Arr0(x) == [shape |-> <<>>, data |-> x]

Arr1(n, F(_)) == [shape |-> <<n>>, data |-> [i \in 0..(n - 1) |-> F(i)]]

Arr2(r, c, F(_, _)) ==
    [shape |-> <<r, c>>, data |-> [i \in 0..(r - 1) |-> [j \in 0..(c - 1) |-> F(i, j)]]]

(* np.linspace(start, stop, num). *)
linspace(start, stop, num) ==
    LET at(i) == IF num = 1 THEN start
                 ELSE RAdd(start, RMul(R(i), RDiv(RSub(stop, start), R(num - 1))))
    IN  Arr1(num, at)

(* data.T of a 2-d array. *)
Transpose(M) ==
    LET at(i, j) == M.data[j][i]
    IN  Arr2(M.shape[2], M.shape[1], at)

(* np.flip(data, axis) of a 1-d or 2-d array. *)
Flip(M, axis) ==
    IF Len(M.shape) = 1
    THEN LET at(i) == M.data[M.shape[1] - 1 - i]
         IN  Arr1(M.shape[1], at)
    ELSE LET at(i, j) == IF axis = 0 THEN M.data[M.shape[1] - 1 - i][j]
                         ELSE M.data[i][M.shape[2] - 1 - j]
         IN  Arr2(M.shape[1], M.shape[2], at)

(* Index objects: slice(None, None), an integer, slice(start, stop). *)
SliceAll == [kind |-> "all"]

IntIndex(i) == [kind |-> "int", i |-> i]

Slice(start, stop) == [kind |-> "slice", start |-> start, stop |-> stop]

(* What an index object selects on an axis of length n: the first index    *)
(* and the count, or an out-of-bounds integer.  A negative index counts    *)
(* from the end; a slice is clipped to the axis.                           *)
Selected(sel, n) ==
    IF sel.kind = "all" THEN [oob |-> FALSE, lo |-> 0, cnt |-> n]
    ELSE IF sel.kind = "int"
    THEN IF sel.i < -n \/ sel.i >= n THEN [oob |-> TRUE, lo |-> 0, cnt |-> 0]
         ELSE [oob |-> FALSE, lo |-> IF sel.i < 0 THEN sel.i + n ELSE sel.i, cnt |-> 1]
    ELSE LET clip(x) == IF x < 0 THEN Max(x + n, 0) ELSE Min(x, n)
             lo == clip(sel.start)
             hi == clip(sel.stop)
         IN  [oob |-> FALSE, lo |-> lo, cnt |-> Max(hi - lo, 0)]

(* a[sel] of a 1-d array. *)
Index1(A, sel) ==
    LET p == Selected(sel, A.shape[1])
        at(k) == A.data[p.lo + k]
    IN  IF p.oob THEN Error("IndexError", <<sel.i, 0, A.shape[1]>>)
        ELSE IF sel.kind = "int" THEN Arr0(A.data[p.lo])
        ELSE Arr1(p.cnt, at)

(* a[rsel, csel] of a 2-d array. *)
Index2(M, rsel, csel) ==
    LET p == Selected(rsel, M.shape[1])
        q == Selected(csel, M.shape[2])
        at2(i, j) == M.data[p.lo + i][q.lo + j]
        atrow(j) == M.data[p.lo][q.lo + j]
        atcol(i) == M.data[p.lo + i][q.lo]
    IN  IF p.oob THEN Error("IndexError", <<rsel.i, 0, M.shape[1]>>)
        ELSE IF q.oob THEN Error("IndexError", <<csel.i, 1, M.shape[2]>>)
        ELSE IF rsel.kind = "int" /\ csel.kind = "int" THEN Arr0(M.data[p.lo][q.lo])
        ELSE IF rsel.kind = "int" THEN Arr1(q.cnt, atrow)
        ELSE IF csel.kind = "int" THEN Arr1(p.cnt, atcol)
        ELSE Arr2(p.cnt, q.cnt, at2)

-----------------------------------------------------------------------------
(* The experiment objects VNAxANY, SAxANY and VNAxDC.                      *)
(*                                                                         *)
(* info is a record; its fields stand for the keys of the info dict:       *)
(*   trace            'VNA - trace'                                        *)
(*   n_points         'VNA - # of points'      ('SA - ...' in SAxANY)      *)
(*   n_traces         'VNA - # of traces'                                  *)
(*   start_frequency  'VNA - start frequency'                              *)
(*   stop_frequency   'VNA - stop frequency'                               *)
(*   frequency_step   'VNA - frequency step'                               *)
(*   sweep_name, sweep_start, sweep_stop, sweep_step                       *)
(*                    'sweep - name', 'sweep - start', ...                 *)
(*   dc[no], sweeping_dc_no                                                *)
(*                    the 'DC{no} - ...' keys and 'Sweeping DC no'.        *)
(* A trace dataset 'VNA - Sxy' is named by its label Sxy in file.traces,   *)
(* 'SA - Signal' by Signal.  The element [i, j] of the raw trace matrix is *)
(* the datum <<i, j>>: sample i of trace j.                                *)

possible_traces ==
    <<"S11", "S12", "S13", "S14", "S21", "S22", "S23", "S24",
      "S31", "S32", "S33", "S34", "S41", "S42", "S43", "S44">>

dc_supply_no == <<"1", "2", "3", "4", "5", "6">>

(* f'DC supply - {no} - Current' *)
dc_supply_name ==
    [no \in {"1", "2", "3", "4", "5", "6"} |->
        CASE no = "1" -> "DC supply - 1 - Current"
          [] no = "2" -> "DC supply - 2 - Current"
          [] no = "3" -> "DC supply - 3 - Current"
          [] no = "4" -> "DC supply - 4 - Current"
          [] no = "5" -> "DC supply - 5 - Current"
          [] no = "6" -> "DC supply - 6 - Current"]

(* The trace dataset sliced as [:, 0, :] (+ 1j * [:, 1, :]). *)
get_traces(f) ==
    LET at(i, j) == <<i, j>>
    IN  Arr2(f.npts, f.ntrc, at)

(* The sampling-axis part of _get_info, given the trace label. *)
sampling_info(f, trace) ==
    [trace |-> trace,
     n_points |-> f.npts,
     n_traces |-> f.ntrc,
     start_frequency |-> R(f.t0),
     stop_frequency |-> RAdd(R(f.t0), RMul(R(f.dt), R(f.npts - 1))),
     frequency_step |-> R(f.dt)]

is_sweeping_or_single(stepconfig) == stepconfig.items.tag # "Follow"

(* A decoded step config counts as swept. *)
is_sweeping(stepconfig) == stepconfig.items.tag = "Sweep"

(* The loop over stepconfig_map of _get_info: the (name, stepconfig) pairs *)
(* that are swept, or the exception the decoder raised.                    *)
RECURSIVE find_sweepings(_, _, _)
find_sweepings(f, index, sweepings) ==
    IF index >= Len(f.stepconfig) THEN Ok(sweepings)
    ELSE LET name == stepconfig_map(f)[index]
             stepconfig == get_stepconfig_by_name(f, name, TRUE)
         IN  IF IsError(stepconfig) THEN stepconfig
             ELSE find_sweepings(f, index + 1,
                      IF is_sweeping(stepconfig)
                      THEN Append(sweepings, <<name, stepconfig>>)
                      ELSE sweepings)

(* The 'ANY: find sweeping quantity' part of _get_info. *)
sweep_info(f, info) ==
    LET found == find_sweepings(f, 0, <<>>)
    IN  IF IsError(found) THEN found
        ELSE LET sweepings == found.v
             IN  IF Len(sweepings) = 0
                 THEN info @@ [sweep_name |-> None]
                 ELSE IF Len(sweepings) = 1
                 THEN info @@ [sweep_name  |-> sweepings[1][1],
                               sweep_start |-> sweepings[1][2].items.start,
                               sweep_stop  |-> sweepings[1][2].items.stop,
                               sweep_step  |-> sweepings[1][2].items.step]
                 ELSE Error("Exception",
                            <<"Only support 1 sweeping quantity, however there are ",
                              Len(sweepings), ".">>)

(* The first of possible_traces the container holds, or None. *)
find_trace(f) ==
    LET found == {k \in 1..Len(possible_traces) : possible_traces[k] \in f.traces}
    IN  IF found = {} THEN None
        ELSE possible_traces[CHOOSE k \in found : \A l \in found : k <= l]

(* VNAxANY._get_info *)
VNAxANY_get_info(f) ==
    IF find_trace(f) = None THEN Error("Exception", <<"No VNA trace found">>)
    ELSE sweep_info(f, sampling_info(f, find_trace(f)))

(* SAxANY._get_info *)
SAxANY_get_info(f) ==
    IF "Signal" \notin f.traces THEN Error("KeyError", <<"SA - Signal">>)
    ELSE sweep_info(f, sampling_info(f, "Signal"))

(* The loop over dc_supply_no of VNAxDC._get_info. *)
RECURSIVE dc_info(_, _, _)
dc_info(f, k, info) ==
    IF k > Len(dc_supply_no) THEN info
    ELSE LET no == dc_supply_no[k]
             name == dc_supply_name[no]
         IN  IF name \notin {stepconfig_map(f)[i] : i \in DOMAIN stepconfig_map(f)}
             THEN dc_info(f, k + 1, info)
             ELSE LET stepconfig == get_stepconfig_by_name(f, name, TRUE)
                  IN  IF IsError(stepconfig) THEN stepconfig
                      ELSE LET step_item == stepconfig.items
                               entry ==
                                 IF step_item.tag = "Single"
                                 THEN [sweep |-> FALSE, current |-> step_item.single]
                                 ELSE IF step_item.tag = "Follow"
                                 THEN [sweep |-> FALSE, current |-> step_item.follow]
                                 ELSE [sweep |-> TRUE,
                                       start_current |-> step_item.start,
                                       stop_current  |-> step_item.stop,
                                       n_steps       |-> step_item.n_pts,
                                       current_step  |-> step_item.step]
                           IN  dc_info(f, k + 1,
                                 [info EXCEPT
                                    !.dc = (no :> entry) @@ @,
                                    !.sweeping_dc_no =
                                        IF step_item.tag = "Sweep" THEN no ELSE @])

(* VNAxDC._get_info *)
VNAxDC_get_info(f) ==
    IF find_trace(f) = None THEN Error("Exception", <<"No VNA trace found">>)
    ELSE dc_info(f, 1, sampling_info(f, find_trace(f))
                       @@ [dc |-> <<>>, sweeping_dc_no |-> None])

(* The swept axis of an experiment object: name (or None), start, stop, step. *)
swept_axis(cls, info) ==
    IF cls = "VNAxDC"
    THEN IF info.sweeping_dc_no = None THEN [name |-> None]
         ELSE [name  |-> info.sweeping_dc_no,
               start |-> info.dc[info.sweeping_dc_no].start_current,
               stop  |-> info.dc[info.sweeping_dc_no].stop_current,
               step  |-> info.dc[info.sweeping_dc_no].current_step]
    ELSE IF info.sweep_name = None THEN [name |-> None]
         ELSE [name  |-> info.sweep_name,
               start |-> info.sweep_start,
               stop  |-> info.sweep_stop,
               step  |-> info.sweep_step]

(* __init__ of the three classes, after _get_info: the trace matrix, the    *)
(* axis arrays and, when a quantity is swept, the flip flags (sflip is      *)
(* _sflip, _iflip in VNAxDC; s_sweep is curr_sweep in VNAxDC).              *)
new_experiment(cls, f, info) ==
    IF IsError(info) THEN info
    ELSE LET base == [tag |-> cls, info |-> info, traces |-> get_traces(f),
                      freq_sweep |-> linspace(info.start_frequency,
                                              info.stop_frequency, info.n_points)]
             ax == swept_axis(cls, info)
         IN  IF ax.name = None THEN base
             ELSE base @@ [s_sweep |-> linspace(ax.start, ax.stop, info.n_traces),
                           sflip |-> RGt(ax.start, ax.stop),
                           fflip |-> RGt(info.start_frequency, info.stop_frequency)]

VNAxANY_init(f) == new_experiment("VNAxANY", f, VNAxANY_get_info(f))

SAxANY_init(f) == new_experiment("SAxANY", f, SAxANY_get_info(f))

VNAxDC_init(f) == new_experiment("VNAxDC", f, VNAxDC_get_info(f))

out_of_range_closed(x0, x1, value) ==
    \/ ~RGt(value, x0) /\ ~RGt(value, x1)
    \/ ~RLt(value, x0) /\ ~RLt(value, x1)

(* The range test of s2ind, i2ind and f2ind. *)
out_of_range(x0, x1, value) ==
    \/ RLt(value, x0) /\ RLt(value, x1)
    \/ RGt(value, x0) /\ RGt(value, x1)

(* int(round((value - x0) / step)) on Python floats. *)
float_index(x0, step, value) ==
    IF IsZero(step) THEN Error("ZeroDivisionError", <<"float division by zero">>)
    ELSE Ok(PyRound(RDiv(RSub(value, x0), step)))

(* int(round((value - x0) / step)) on numpy floats: 0/0 is nan, x/0 is inf. *)
numpy_index(x0, step, value) ==
    IF IsZero(step)
    THEN IF value = x0
         THEN Error("ValueError", <<"cannot convert float NaN to integer">>)
         ELSE Error("OverflowError", <<"cannot convert float infinity to integer">>)
    ELSE Ok(PyRound(RDiv(RSub(value, x0), step)))

s2ind_unchecked(e, s_value) ==
    IF e.info.sweep_name = None
    THEN Error("KeyError", <<"sweep - start">>)
    ELSE LET s0 == e.info.sweep_start
             s1 == e.info.sweep_stop
             steps == e.info.sweep_step
         IN  IF out_of_range(s0, s1, s_value)
             THEN Error("Exception", <<"specified value ", s_value, " is out of range">>)
             ELSE float_index(s0, steps, s_value)

(* VNAxANY.s2ind, SAxANY.s2ind *)
s2ind(e, s_value) ==
    IF e.info.sweep_name = None
    THEN Error("Exception", <<"s2ind not supported for data without sweep quantity.">>)
    ELSE LET s0 == e.info.sweep_start
             s1 == e.info.sweep_stop
             steps == e.info.sweep_step
         IN  IF out_of_range(s0, s1, s_value)
             THEN Error("Exception", <<"specified value ", s_value, " is out of range">>)
             ELSE float_index(s0, steps, s_value)

(* VNAxDC.i2ind *)
i2ind(e, current) ==
    IF e.info.sweeping_dc_no = None THEN Error("KeyError", <<"Sweeping DC no">>)
    ELSE LET no == e.info.sweeping_dc_no
             i0 == e.info.dc[no].start_current
             i1 == e.info.dc[no].stop_current
             stepi == e.info.dc[no].current_step
         IN  IF out_of_range(i0, i1, current)
             THEN Error("Exception", <<"specified current ", current, " is out of range">>)
             ELSE float_index(i0, stepi, current)

(* The swept-axis index of a value, by the class of the object. *)
sweep2ind(e, value) == IF e.tag = "VNAxDC" THEN i2ind(e, value) ELSE s2ind(e, value)

(* stepf of f2ind. *)
f2ind_stepf(f0, f1, nf) == RDiv(RSub(f1, f0), R(nf))

(* f2ind of the three classes. *)
f2ind(e, freq) ==
    LET f0 == e.info.start_frequency
        f1 == e.info.stop_frequency
        nf == e.info.n_points
        stepf == f2ind_stepf(f0, f1, nf)
    IN  IF out_of_range(f0, f1, freq)
        THEN Error("Exception", <<"specified frequency ", freq, " is out of range">>)
        ELSE numpy_index(f0, stepf, freq)

flipfunc_sample_only(e, transpose, data) ==
    IF transpose
    THEN LET d1 == IF ~e.fflip THEN Flip(data, 0) ELSE data
         IN  IF e.sflip THEN Flip(d1, 1) ELSE d1
    ELSE LET d1 == Transpose(data)
         IN  IF e.fflip THEN Flip(d1, 1) ELSE d1

flipfunc_by_rule_table(e, transpose, data) ==
    IF transpose
    THEN LET d1 == IF ~e.fflip THEN Flip(data, 0) ELSE data
         IN  IF e.sflip THEN Flip(d1, 1) ELSE d1
    ELSE LET d1 == Transpose(data)
             d2 == IF e.fflip THEN Flip(d1, 1) ELSE d1
         IN  IF e.sflip THEN Flip(d2, 0) ELSE d2

flipfunc_rotating(e, transpose, data) ==
    IF transpose
    THEN LET d0 == Transpose(data)
             d1 == IF ~e.fflip THEN Flip(d0, 0) ELSE d0
         IN  IF e.sflip THEN Flip(d1, 1) ELSE d1
    ELSE LET d1 == Transpose(data)
             d2 == IF e.fflip THEN Flip(d1, 1) ELSE d1
         IN  IF ~e.sflip THEN Flip(d2, 0) ELSE d2

flipfunc_top_down(e, transpose, data) ==
    IF transpose
    THEN LET d1 == IF e.fflip THEN Flip(data, 0) ELSE data
         IN  IF e.sflip THEN Flip(d1, 1) ELSE d1
    ELSE LET d1 == Transpose(data)
             d2 == IF e.fflip THEN Flip(d1, 1) ELSE d1
         IN  IF ~e.sflip THEN Flip(d2, 0) ELSE d2

flipfunc_swept_top_down(e, transpose, data) ==
    IF transpose
    THEN LET d1 == IF ~e.fflip THEN Flip(data, 0) ELSE data
         IN  IF e.sflip THEN Flip(d1, 1) ELSE d1
    ELSE LET d1 == Transpose(data)
             d2 == IF e.fflip THEN Flip(d1, 1) ELSE d1
         IN  IF e.sflip THEN Flip(d2, 0) ELSE d2

(* flipfunc(data) of _get_flip_func(transpose). *)
flipfunc(e, transpose, data) ==
    IF transpose
    THEN LET d1 == IF ~e.fflip THEN Flip(data, 0) ELSE data
         IN  IF e.sflip THEN Flip(d1, 1) ELSE d1
    ELSE LET d1 == Transpose(data)
             d2 == IF e.fflip THEN Flip(d1, 1) ELSE d1
         IN  IF ~e.sflip THEN Flip(d2, 0) ELSE d2

flipfunc_argument_in_place(e, transpose, data) == flipfunc(e, transpose, data)

(* The array passed to flipfunc, after the call: np.flip and .T return new  *)
(* views and rebind the local name only.                                    *)
flipfunc_argument(e, transpose, data) == data

(* get_2dploting_objs: the extent, the title and labels set on the axes,    *)
(* and the flipfunc closure, which holds the transpose flag.                *)
get_2dploting_objs(e, transpose) ==
    IF e.tag # "VNAxDC" /\ e.info.sweep_name = None
    THEN Error("Exception",
               <<"get_2dploting_objs is not supported for data without sweep quantity.">>)
    ELSE IF e.tag = "VNAxDC" /\ e.info.sweeping_dc_no = None
    THEN Error("KeyError", <<"Sweeping DC no">>)
    ELSE LET ax == swept_axis(e.tag, e.info)
             scale(x) == IF e.tag = "VNAxDC" THEN RMul(x, R(1000)) ELSE x
             GHz(x) == RDiv(x, R(1000000000))
             startf == e.info.start_frequency
             stopf == e.info.stop_frequency
             f0 == IF ~e.fflip THEN startf ELSE stopf
             f1 == IF ~e.fflip THEN stopf ELSE startf
             s0 == IF ~e.sflip THEN ax.start ELSE ax.stop
             s1 == IF ~e.sflip THEN ax.stop ELSE ax.start
             slabel == IF e.tag = "VNAxDC" THEN <<"DC", ax.name, " current / mA">>
                       ELSE <<ax.name>>
             flabel == IF e.tag = "SAxANY" THEN <<"SA frequency / GHz">>
                       ELSE <<"VNA frequency / GHz">>
         IN  Ok([extent |-> IF transpose
                            THEN <<scale(s0), scale(s1), GHz(f0), GHz(f1)>>
                            ELSE <<GHz(f0), GHz(f1), scale(s0), scale(s1)>>,
                 title  |-> IF e.tag = "SAxANY" THEN "SA" ELSE e.info.trace,
                 xlabel |-> IF transpose THEN slabel ELSE flabel,
                 ylabel |-> IF transpose THEN flabel ELSE slabel,
                 flipfunc |-> [transpose |-> transpose]])

(* The cut arguments of get_traces_cut: None, a number, a list [a, b]. *)
CutNone == [kind |-> "None"]

CutNumber(v) == [kind |-> "Number", v |-> v]

CutList(a, b) == [kind |-> "list", v0 |-> a, v1 |-> b]

s_acess_ind_from_count(n_traces, s_ind) == n_traces - s_ind

(* The storage index of a swept-axis index. *)
s_acess_ind(n_traces, s_ind) == (n_traces - 1) - s_ind

s_acceeser_unordered(e, scut) ==
    IF scut.kind = "None" THEN Ok(SliceAll)
    ELSE IF scut.kind = "Number"
    THEN LET s_ind == sweep2ind(e, scut.v)
         IN  IF IsError(s_ind) THEN s_ind
             ELSE Ok(IntIndex(s_acess_ind(e.info.n_traces, s_ind.v)))
    ELSE LET s0_ind == sweep2ind(e, scut.v0)
             s1_ind == sweep2ind(e, scut.v1)
         IN  IF IsError(s0_ind) THEN s0_ind
             ELSE IF IsError(s1_ind) THEN s1_ind
             ELSE Ok(Slice(s_acess_ind(e.info.n_traces, s0_ind.v),
                           s_acess_ind(e.info.n_traces, s1_ind.v)))

(* The index object get_traces_cut builds for the swept axis. *)
s_acceeser(e, scut) ==
    IF scut.kind = "None" THEN Ok(SliceAll)
    ELSE IF scut.kind = "Number"
    THEN LET s_ind == sweep2ind(e, scut.v)
         IN  IF IsError(s_ind) THEN s_ind
             ELSE Ok(IntIndex(s_acess_ind(e.info.n_traces, s_ind.v)))
    ELSE LET s0_ind == sweep2ind(e, scut.v0)
             s1_ind == sweep2ind(e, scut.v1)
         IN  IF IsError(s0_ind) THEN s0_ind
             ELSE IF IsError(s1_ind) THEN s1_ind
             ELSE LET s0_acess_ind == s_acess_ind(e.info.n_traces, s0_ind.v)
                      s1_acess_ind == s_acess_ind(e.info.n_traces, s1_ind.v)
                  IN  IF s0_acess_ind > s1_acess_ind
                      THEN Ok(Slice(s1_acess_ind, s0_acess_ind))
                      ELSE Ok(Slice(s0_acess_ind, s1_acess_ind))

(* The index object get_traces_cut builds for the sampling axis. *)
f_acceeser(e, fcut) ==
    IF fcut.kind = "None" THEN Ok(SliceAll)
    ELSE IF fcut.kind = "Number"
    THEN LET f_ind == f2ind(e, fcut.v)
         IN  IF IsError(f_ind) THEN f_ind ELSE Ok(IntIndex(f_ind.v))
    ELSE LET f0_ind == f2ind(e, fcut.v0)
             f1_ind == f2ind(e, fcut.v1)
         IN  IF IsError(f0_ind) THEN f0_ind
             ELSE IF IsError(f1_ind) THEN f1_ind
             ELSE IF f0_ind.v > f1_ind.v
                  THEN Ok(Slice(f1_ind.v, f0_ind.v))
                  ELSE Ok(Slice(f0_ind.v, f1_ind.v))

(* get_traces_cut of the three classes.  The result carries, next to the   *)
(* three returned arrays, the two index objects the call built.            *)
get_traces_cut(e, scut, fcut) ==
    IF e.tag # "VNAxDC" /\ e.info.sweep_name = None
    THEN Error("Exception",
               <<"get_traces_cut not supported for data without sweep quantity.">>)
    ELSE LET sacc == s_acceeser(e, scut)
             facc == f_acceeser(e, fcut)
         IN  IF IsError(sacc) THEN sacc
             ELSE IF IsError(facc) THEN facc
             ELSE IF "fflip" \notin DOMAIN e THEN Error("AttributeError", <<"_fflip">>)
             ELSE LET cutted_freq ==
                          Index1(IF e.fflip THEN Flip(e.freq_sweep, 0) ELSE e.freq_sweep,
                                 facc.v)
                      cutted_current ==
                          Index1(IF ~e.sflip THEN Flip(e.s_sweep, 0) ELSE e.s_sweep,
                                 sacc.v)
                      cutted_trace ==
                          Index2(flipfunc(e, FALSE, e.traces), sacc.v, facc.v)
                  IN  IF IsError(cutted_freq) THEN cutted_freq
                      ELSE IF IsError(cutted_current) THEN cutted_current
                      ELSE IF IsError(cutted_trace) THEN cutted_trace
                      ELSE Ok([cutted_freq |-> cutted_freq,
                               cutted_current |-> cutted_current,
                               cutted_trace |-> cutted_trace,
                               s_acceeser |-> sacc.v,
                               f_acceeser |-> facc.v])

-----------------------------------------------------------------------------
(* debackground.  The elements of the trace matrices are opaque data, so   *)
(* the arithmetic on them is kept as a term: [op, data, bg] is data op bg, *)
(* with op one of "/", "-" and "1+-" (1 + data - bg).                      *)

(* The characters of a trace label: 'S21' is 'S', '2', '1'. *)
trace_chars ==
    LET digit == <<"1", "2", "3", "4">>
    IN  [t \in {possible_traces[k] : k \in 1..16} |->
            LET k == CHOOSE l \in 1..16 : possible_traces[l] = t
            IN  <<"S", digit[((k - 1) \div 4) + 1], digit[((k - 1) % 4) + 1]>>]

is_snn_from_prefix(trace) == trace_chars[trace][1] = trace_chars[trace][2]

(* self.info['VNA - trace'][1] == self.info['VNA - trace'][2] *)
is_snn(trace) == trace_chars[trace][2] = trace_chars[trace][3]

broadcastable_when_equal(a, b) == a = b

(* Two lengths of an axis numpy broadcasts together. *)
broadcastable(a, b) == a = b \/ a = 1 \/ b = 1

(* A op B elementwise, with numpy's broadcasting of axes of length 1. *)
elementwise(op, A, B) ==
    IF ~broadcastable(A.shape[1], B.shape[1]) \/ ~broadcastable(A.shape[2], B.shape[2])
    THEN Error("ValueError",
               <<"operands could not be broadcast together with shapes ", A.shape, B.shape>>)
    ELSE LET pos(n, k) == IF n = 1 THEN 0 ELSE k
             at(i, j) ==
                 LET a == A.data[pos(A.shape[1], i)][pos(A.shape[2], j)]
                     b == B.data[pos(B.shape[1], i)][pos(B.shape[2], j)]
                 IN  IF op = "*1" THEN a ELSE [op |-> op, data |-> a, bg |-> b]
         IN  Arr2(Max(A.shape[1], B.shape[1]), Max(A.shape[2], B.shape[2]), at)

(* The container debackground writes: the copy of the data file, holding   *)
(* the float16 of the real and imaginary parts of the result once the      *)
(* assignment to the trace dataset has been made.                          *)
debg_copy(e) == [tag |-> "File", written |-> FALSE, traces |-> e.traces]

debg_written(e, debg_traces) ==
    LET at(i, j) == [astype |-> "float16", of |-> debg_traces.data[i][j]]
    IN  [tag |-> "File", written |-> TRUE,
         traces |-> Arr2(debg_traces.shape[1], debg_traces.shape[2], at)]

(* debackground of the three classes, given the object built from the      *)
(* background file: the value returned or the exception raised, and the    *)
(* container left at the _debg path, if any.                               *)
debackground(e, bg, mode, create_file) ==
    LET raise(err) == [val |-> err, file |-> [tag |-> "None"]]
    IN  IF IsError(bg) THEN raise(bg)
        ELSE LET extended_bg == elementwise("*1", bg.traces, e.traces)
                 assigned ==
                     IF IsError(extended_bg) THEN extended_bg
                     ELSE IF mode = "-"
                     THEN IF e.tag = "SAxANY" THEN Error("KeyError", <<"SA - trace">>)
                          ELSE IF is_snn(e.info.trace)
                          THEN elementwise("-", e.traces, extended_bg)
                          ELSE elementwise("1+-", e.traces, extended_bg)
                     ELSE IF mode = "/" THEN elementwise("/", e.traces, extended_bg)
                     ELSE [tag |-> "Unbound"]
                 unassigned == "tag" \in DOMAIN assigned /\ assigned.tag = "Unbound"
                 unbound == Error("UnboundLocalError",
                                  <<IF e.tag = "SAxANY" THEN "debg_traces"
                                    ELSE "debg_vna_traces">>)
             IN  IF IsError(assigned) THEN raise(assigned)
                 ELSE IF ~create_file
                 THEN IF unassigned THEN raise(unbound)
                      ELSE [val |-> Ok(assigned), file |-> [tag |-> "None"]]
                 ELSE IF e.tag = "SAxANY" THEN raise(Error("KeyError", <<"SA - trace">>))
                 ELSE IF unassigned THEN [val |-> unbound, file |-> debg_copy(e)]
                 ELSE IF assigned.shape # e.traces.shape
                 THEN [val |-> Error("TypeError", <<"Can't broadcast ", assigned.shape,
                                                   " -> ", e.traces.shape>>),
                       file |-> debg_copy(e)]
                 ELSE [val |-> Ok(assigned), file |-> debg_written(e, assigned)]

-----------------------------------------------------------------------------
(* Containers. *)

(* The names of the 'Step config' groups, in the order h5py lists them. *)
ChannelNames ==
    <<"DC supply - 1 - Current", "DC supply - 2 - Current",
      "Flux", "Gate", "Power", "Temp">>

NoRelation == [use_relations |-> FALSE, equation |-> "x",
               variable |-> "x", channel_name |-> "", use_lookup |-> FALSE]

Relations ==
    {NoRelation}
    \cup {[use_relations |-> TRUE, equation |-> e, variable |-> "x",
           channel_name |-> c, use_lookup |-> FALSE] :
              <<e, c>> \in {<<"x", "Power">>, <<"2*x", "Temp">>}}

Items(range_type, step_type, single, start, stop, center, span, step, n_pts) ==
    [range_type |-> range_type, step_type |-> step_type, single |-> single,
     start |-> start, stop |-> stop, center |-> center, span |-> span,
     step |-> step, n_pts |-> n_pts]

(* A container built from the 'Step items' and relation rows of its groups, *)
(* named in index order, and the sampling axis of its trace dataset.        *)
MkFile(groups, traces, t0, dt, npts, ntrc) ==
    [stepconfig |-> [i \in 1..Len(groups) |->
                        [name |-> ChannelNames[i],
                         variable |-> groups[i].rel.variable,
                         channel_name |-> groups[i].rel.channel_name,
                         use_lookup |-> groups[i].rel.use_lookup]
                        @@ groups[i].items],
     steplist   |-> [n \in {ChannelNames[i] : i \in 1..Len(groups)} |->
                        LET i == CHOOSE k \in 1..Len(groups) : ChannelNames[k] = n
                        IN  [use_relations |-> groups[i].rel.use_relations,
                             equation |-> groups[i].rel.equation]],
     traces |-> traces, t0 |-> t0, dt |-> dt, npts |-> npts, ntrc |-> ntrc]

NoExp == [tag |-> "None"]

NoRet == [op |-> "none"]

(* No container has been written next to the data file. *)
NoFile == [tag |-> "None"]

(* No record has been decoded yet. *)
NoDecoded == <<>>

(* No instrument is connected. *)
NoYoko == [tag |-> "None"]

-----------------------------------------------------------------------------
(* Decoding one record: the raw fields range over every enum value, valid  *)
(* or not, and the numeric fields a range type does not read vary too.     *)

Junk == {0, 1}

DecodeItems ==
    {Items(0, st, single, a, b, c, d, e, n) :
        st \in 0..2, single \in 0..MaxRaw, a \in Junk, b \in Junk, c \in Junk,
        d \in Junk, e \in Junk, n \in Junk}
    \cup {Items(1, st, j, start, stop, j, j, step, n) :
        st \in 0..2, j \in Junk, start \in 0..MaxStart, stop \in 0..MaxStart,
        step \in -1..MaxStep, n \in 0..MaxPts}
    \cup {Items(2, st, j, j, j, center, span, step, n) :
        st \in 0..2, j \in Junk, center \in 0..MaxRaw, span \in -MaxSpan..MaxSpan,
        step \in -1..MaxStep, n \in 0..MaxPts}
    \cup {Items(3, st, j, j, j, j, j, j, j) : st \in 0..2, j \in Junk}

InitDecode ==
    /\ file \in {MkFile(<<[items |-> it, rel |-> rel]>>, {"VNA - S21"}, 0, 1, 1, 1) :
                    it \in DecodeItems, rel \in Relations}
    /\ exp = NoExp
    /\ ret = NoRet
    /\ debg = NoFile
    /\ decoded = NoDecoded
    /\ yoko = NoYoko

(* The caller takes the result of the last call; calls are sequential. *)
Return ==
    /\ ret # NoRet
    /\ ret' = NoRet
    /\ UNCHANGED <<file, exp, debg, decoded, yoko>>

GetStepconfigByIndex ==
    /\ ret = NoRet
    /\ \E index \in 0..0, reevaluate \in BOOLEAN :
          ret' = [op |-> "get_stepconfig_by_index", arg |-> <<index, reevaluate>>,
                  val |-> get_stepconfig_by_index(file, index, reevaluate)]
    /\ UNCHANGED <<file, exp, debg, decoded, yoko>>

GetStepconfigByName ==
    /\ ret = NoRet
    /\ \E name \in {ChannelNames[1], ChannelNames[2]}, reevaluate \in BOOLEAN :
          ret' = [op |-> "get_stepconfig_by_name", arg |-> <<name, reevaluate>>,
                  val |-> get_stepconfig_by_name(file, name, reevaluate)]
    /\ UNCHANGED <<file, exp, debg, decoded, yoko>>

NextDecode == GetStepconfigByIndex \/ GetStepconfigByName \/ Return

SpecDecode == InitDecode /\ [][NextDecode]_vars

-----------------------------------------------------------------------------
(* Loading an experiment and addressing its axes. *)

(* The number of traces Labber logs for the groups of a container: one per *)
(* point of each swept channel.                                            *)
RECURSIVE TracesCount(_, _)
TracesCount(groups, i) ==
    IF i > Len(groups) THEN 1
    ELSE LET d == get_stepconfig_by_index(MkFile(groups, {}, 0, 0, 1, 1), i - 1, TRUE)
             n == IF ~IsError(d) /\ d.items.tag = "Sweep" /\ d.items.n_pts >= 1
                  THEN d.items.n_pts ELSE 1
         IN  n * TracesCount(groups, i + 1)

LogFile(groups, traces, t0, dt, npts) ==
    MkFile(groups, traces, t0, dt, npts, TracesCount(groups, 1))

Unswept == [items |-> Items(0, 0, 1, 0, 0, 0, 0, 0, 1), rel |-> NoRelation]

(* The groups of the containers of SpecDiscover: single values, relations, *)
(* sweeps of both encodings and both directions, and records the decoder   *)
(* rejects.                                                                *)
DiscoverGroups ==
    {[items |-> Items(0, 0, s, 0, 0, 0, 0, 0, 1), rel |-> NoRelation] : s \in 0..1}
    \cup {[items |-> Items(1, st, 0, start, stop, 0, 0, 1, 2), rel |-> NoRelation] :
             st \in 0..1, start \in 0..1, stop \in 0..1}
    \cup {[items |-> Items(2, 1, 0, 0, 0, 1, span, 1, 3), rel |-> NoRelation] :
             span \in {-2, 2}}
    \cup {[items |-> Items(1, 1, 0, 0, 1, 0, 0, 1, 1), rel |-> NoRelation],
          [items |-> Items(3, 0, 0, 0, 1, 0, 0, 1, 2), rel |-> NoRelation]}
    \cup {[items |-> Items(rt, 0, 0, 0, 1, 0, 0, 1, 2), rel |-> rel] :
             rt \in 0..1, rel \in Relations \ {NoRelation}}

RECURSIVE SeqsUpTo(_, _)
SeqsUpTo(S, n) ==
    IF n = 0 THEN {<<>>}
    ELSE LET shorter == SeqsUpTo(S, n - 1)
         IN  shorter \cup {Append(q, x) : q \in {r \in shorter : Len(r) = n - 1}, x \in S}

InitDiscover ==
    /\ file \in {LogFile(groups, {"S21", "Signal"}, 0, 1, 2) :
                    groups \in SeqsUpTo(DiscoverGroups, MaxRecords)}
    /\ exp = NoExp
    /\ ret = NoRet
    /\ debg = NoFile
    /\ decoded = NoDecoded
    /\ yoko = NoYoko

(* A constructor call: the object it returns, or none when it raises. *)
Construct(cls, obj) ==
    /\ ret = NoRet
    /\ exp' = IF IsError(obj) THEN NoExp ELSE obj
    /\ ret' = [op |-> cls, arg |-> <<>>, val |-> IF IsError(obj) THEN obj ELSE Ok(cls)]
    /\ UNCHANGED <<file, debg, decoded, yoko>>

NewVNAxANY == Construct("VNAxANY", VNAxANY_init(file))

NewSAxANY == Construct("SAxANY", SAxANY_init(file))

NewVNAxDC == Construct("VNAxDC", VNAxDC_init(file))

NextDiscover == NewVNAxANY \/ NewSAxANY \/ NewVNAxDC \/ Return

SpecDiscover == InitDiscover /\ [][NextDiscover]_vars

(* The groups of the containers of Spec: one swept channel of either       *)
(* encoding, step rule and direction, or none.                             *)
AxisSteps == {-1, 1, 2}

AxisGroups ==
    {Unswept}
    \cup {[items |-> Items(1, 0, 0, start, stop, 0, 0, step, 0), rel |-> NoRelation] :
             start \in 0..MaxVal, stop \in 0..MaxVal, step \in AxisSteps}
    \cup {[items |-> Items(1, 1, 0, start, stop, 0, 0, 0, n), rel |-> NoRelation] :
             start \in 0..MaxVal, stop \in 0..MaxVal, n \in 2..MaxTraces}
    \cup {[items |-> Items(2, 0, 0, 0, 0, 1, span, step, 0), rel |-> NoRelation] :
             span \in -MaxVal..MaxVal, step \in AxisSteps}
    \cup {[items |-> Items(2, 1, 0, 0, 0, 1, span, 0, n), rel |-> NoRelation] :
             span \in -MaxVal..MaxVal, n \in 2..MaxTraces}

(* A log exists only for a channel swept over 1..MaxTraces points. *)
Logged(g) ==
    LET d == get_stepconfig_by_index(MkFile(<<g>>, {}, 0, 0, 1, 1), 0, TRUE)
    IN  /\ ~IsError(d)
        /\ d.items.tag = "Sweep" => d.items.n_pts \in 1..MaxTraces

(* The sampling axes: ascending, descending, coarse and degenerate. *)
SamplingAxes == {<<0, 1>>, <<MaxVal, -1>>, <<0, 2>>, <<1, 0>>} \X (1..MaxSamples)

Init ==
    /\ file \in {LogFile(<<g>>, {"S21", "Signal"}, ax[1][1], ax[1][2], ax[2]) :
                    g \in {h \in AxisGroups : Logged(h)},
                    ax \in SamplingAxes}
    /\ exp = NoExp
    /\ ret = NoRet
    /\ debg = NoFile
    /\ decoded = NoDecoded
    /\ yoko = NoYoko

CutVals == {R(k) : k \in -1..(MaxVal + 1)}

(* The list cuts: every pair of values on 0..MaxVal, and one pair with an  *)
(* endpoint outside on either side.                                        *)
Cuts == {CutNone} \cup {CutNumber(v) : v \in CutVals}
        \cup {CutList(R(a), R(b)) : a \in 0..MaxVal, b \in 0..MaxVal}
        \cup {CutList(R(-1), R(0)), CutList(R(0), R(MaxVal + 1))}

S2ind ==
    /\ ret = NoRet
    /\ exp.tag \in {"VNAxANY", "SAxANY"}
    /\ \E s_value \in CutVals :
          ret' = [op |-> "s2ind", arg |-> <<s_value>>, val |-> s2ind(exp, s_value)]
    /\ UNCHANGED <<file, exp, debg, decoded, yoko>>

I2ind ==
    /\ ret = NoRet
    /\ exp.tag = "VNAxDC"
    /\ \E current \in CutVals :
          ret' = [op |-> "i2ind", arg |-> <<current>>, val |-> i2ind(exp, current)]
    /\ UNCHANGED <<file, exp, debg, decoded, yoko>>

F2ind ==
    /\ ret = NoRet
    /\ exp.tag \in {"VNAxANY", "SAxANY", "VNAxDC"}
    /\ \E freq \in CutVals :
          ret' = [op |-> "f2ind", arg |-> <<freq>>, val |-> f2ind(exp, freq)]
    /\ UNCHANGED <<file, exp, debg, decoded, yoko>>

(* A call that returned has passed self.vna_traces through flipfunc. *)
GetTracesCut ==
    /\ ret = NoRet
    /\ exp.tag \in {"VNAxANY", "SAxANY", "VNAxDC"}
    /\ \E scut \in Cuts, fcut \in Cuts :
          \E val \in {get_traces_cut(exp, scut, fcut)} :
              /\ ret' = [op |-> "get_traces_cut", arg |-> <<scut, fcut>>, val |-> val]
              /\ exp' = IF val.tag = "Ok"
                        THEN [exp EXCEPT !.traces = flipfunc_argument(exp, FALSE, @)]
                        ELSE exp
    /\ UNCHANGED <<file, debg, decoded, yoko>>

Get2dplotingObjs ==
    /\ ret = NoRet
    /\ exp.tag \in {"VNAxANY", "SAxANY", "VNAxDC"}
    /\ \E transpose \in BOOLEAN :
          ret' = [op |-> "get_2dploting_objs", arg |-> <<transpose>>,
                  val |-> get_2dploting_objs(exp, transpose)]
    /\ UNCHANGED <<file, exp, debg, decoded, yoko>>

(* The matrices flipfunc is applied to: entry [i, j] is the datum <<i, j>>. *)
Matrices ==
    LET at(i, j) == <<i, j>>
    IN  {Arr2(r, c, at) : r \in 1..MaxSamples, c \in 1..MaxTraces}

(* The flipfunc returned by get_2dploting_objs, applied to a matrix: the    *)
(* result, and the argument array as the call leaves it (the object's own   *)
(* trace matrix when that is what was passed).                              *)
FlipFunc ==
    /\ ret = NoRet
    /\ exp.tag \in {"VNAxANY", "SAxANY", "VNAxDC"}
    /\ \E transpose \in BOOLEAN, data \in Matrices :
          /\ get_2dploting_objs(exp, transpose).tag = "Ok"
          /\ ret' = [op |-> "flipfunc", arg |-> <<transpose, data>>,
                     val |-> Ok(flipfunc(exp, transpose, data)),
                     data |-> flipfunc_argument(exp, transpose, data)]
          /\ exp' = IF data = exp.traces
                    THEN [exp EXCEPT !.traces = flipfunc_argument(exp, transpose, data)]
                    ELSE exp
    /\ UNCHANGED <<file, debg, decoded, yoko>>

(* flipfunc applied to its own output: the call flipfunc(flipfunc(data)). *)
FlipFuncAgain ==
    /\ ret.op = "flipfunc"
    /\ ret' = [op |-> "flipfunc(flipfunc)", arg |-> ret.arg,
               val |-> Ok(flipfunc(exp, ret.arg[1], ret.val.v)),
               data |-> flipfunc_argument(exp, ret.arg[1], ret.val.v)]
    /\ UNCHANGED <<file, exp, debg, decoded, yoko>>

(* The background files: one trace or a sweep of up to MaxTraces traces of  *)
(* 1..MaxSamples samples, and a file with two swept channels.               *)
BgGroups ==
    {<<Unswept>>}
    \cup {<<[items |-> Items(1, 1, 0, 0, 1, 0, 0, 0, n), rel |-> NoRelation]>> :
             n \in 2..MaxTraces}

BgFiles ==
    {LogFile(groups, {"S21", "Signal"}, 0, 1, npts) :
        groups \in BgGroups, npts \in 1..MaxSamples}
    \cup {LogFile(<<[items |-> Items(1, 1, 0, 0, 1, 0, 0, 0, 2), rel |-> NoRelation],
                    [items |-> Items(1, 1, 0, 0, 1, 0, 0, 0, 2), rel |-> NoRelation]>>,
                  {"S21", "Signal"}, 0, 1, 2)}

Modes == {"/", "-", "*"}

(* The object debackground builds from the background file: one of the     *)
(* class of self.                                                          *)
background(cls, bg_file) ==
    IF cls = "VNAxANY" THEN VNAxANY_init(bg_file)
    ELSE IF cls = "SAxANY" THEN SAxANY_init(bg_file)
    ELSE VNAxDC_init(bg_file)

Debackground(create_files) ==
    /\ ret = NoRet
    /\ exp.tag \in {"VNAxANY", "SAxANY", "VNAxDC"}
    /\ \E bg_file \in BgFiles, mode \in Modes, create_file \in create_files :
          \E r \in {debackground(exp, background(exp.tag, bg_file), mode, create_file)} :
              /\ ret' = [op |-> "debackground", arg |-> <<bg_file, mode, create_file>>,
                         val |-> r.val]
              /\ debg' = IF r.file.tag = "File" THEN r.file ELSE debg
    /\ UNCHANGED <<file, exp, decoded, yoko>>

DebackgroundNoFile == Debackground({FALSE})

Next ==
    \/ NewVNAxANY
    \/ NewSAxANY
    \/ NewVNAxDC
    \/ S2ind
    \/ I2ind
    \/ F2ind
    \/ GetTracesCut
    \/ Get2dplotingObjs
    \/ FlipFunc
    \/ FlipFuncAgain
    \/ DebackgroundNoFile
    \/ Return

Spec == Init /\ [][Next]_vars

(* Background normalisation: data files of one trace or a sweep, measuring  *)
(* a diagonal or an off-diagonal S-parameter.                               *)
InitDebg ==
    /\ file \in {LogFile(groups, traces, 0, 1, npts) :
                    groups \in BgGroups,
                    traces \in {{"S11", "Signal"}, {"S21", "Signal"}},
                    npts \in 1..MaxSamples}
    /\ exp = NoExp
    /\ ret = NoRet
    /\ debg = NoFile
    /\ decoded = NoDecoded
    /\ yoko = NoYoko

DebackgroundCall == Debackground(BOOLEAN)

NextDebg == NewVNAxANY \/ NewSAxANY \/ NewVNAxDC \/ DebackgroundCall \/ Return

SpecDebg == InitDebg /\ [][NextDebg]_vars

-----------------------------------------------------------------------------
(* Properties of the decoder, under SpecDecode. *)

(* The only group of the container and its relation flag. *)
TheGroup == file.stepconfig[1]

FlagSet == file.steplist[TheGroup.name].use_relations

(* The last call decoded the group, with reevaluation. *)
Decoded ==
    /\ \/ ret.op = "get_stepconfig_by_index" /\ ret.arg[1] = 0
       \/ ret.op = "get_stepconfig_by_name" /\ ret.arg[1] = TheGroup.name
    /\ ret.arg[2]

ValidStepType == TheGroup.step_type \in {0, 1}

(* The step rule divides by zero: a zero raw step under 'Fixed step', or    *)
(* n_pts = 1 under 'Fixed # of pts'.                                        *)
StepRuleDividesByZero ==
    \/ TheGroup.step_type = 0 /\ TheGroup.step = 0
    \/ TheGroup.step_type = 1 /\ TheGroup.n_pts = 1

(* |stop - start| for Start-Stop, the raw span for Center-Span. *)
CanonicalSpan ==
    IF TheGroup.range_type = 1 THEN Abs(TheGroup.stop - TheGroup.start)
    ELSE TheGroup.span

(* C2: a Start-Stop record with the relation flag unset, ascending or       *)
(* descending, decodes to range_type Sweep with start and stop the raw      *)
(* start and stop, center = (start+stop)/2 and span = |stop-start|; the     *)
(* decode raises only when its step rule divides by zero.  The record       *)
(* start=1, stop=5, Fixed # of pts, n_pts=5 decodes to start 1, stop 5,     *)
(* center 3, span 4, step 1, n_pts 5.                                       *)
C2_StartStopDecoded ==
    (Decoded /\ ~FlagSet /\ TheGroup.range_type = 1 /\ ValidStepType
        /\ TheGroup.start # TheGroup.stop)
    => /\ IsError(ret.val) <=> StepRuleDividesByZero
       /\ ~IsError(ret.val) =>
            /\ ret.val.items.tag = "Sweep"
            /\ ret.val.items.start = R(TheGroup.start)
            /\ ret.val.items.stop = R(TheGroup.stop)
            /\ RMul(R(2), ret.val.items.center) = R(TheGroup.start + TheGroup.stop)
            /\ ret.val.items.span = R(Abs(TheGroup.stop - TheGroup.start))
       /\ (TheGroup.start = 1 /\ TheGroup.stop = 5 /\ TheGroup.step_type = 1
             /\ TheGroup.n_pts = 5)
          => ret.val.items = [tag |-> "Sweep", start |-> R(1), stop |-> R(5),
                              center |-> R(3), span |-> R(4), step |-> R(1),
                              n_pts |-> 5]

(* A descending Start-Stop record has been decoded. *)
C2_Witness ==
    /\ Decoded /\ ~FlagSet /\ TheGroup.range_type = 1 /\ ValidStepType
    /\ TheGroup.start = 5 /\ TheGroup.stop = 2
    /\ ~IsError(ret.val)
    /\ ret.val.items.span = R(3)
    /\ ret.val.items.center = <<7, 2>>

(* C3: a Center-Span record with the relation flag unset decodes to         *)
(* range_type Sweep with center and span the raw center and span,           *)
(* start = center - span/2 and stop = center + span/2; the decode raises    *)
(* only when its step rule divides by zero.                                 *)
C3_CenterSpanDecoded ==
    (Decoded /\ ~FlagSet /\ TheGroup.range_type = 2 /\ ValidStepType)
    => /\ IsError(ret.val) <=> StepRuleDividesByZero
       /\ ~IsError(ret.val) =>
            /\ ret.val.items.tag = "Sweep"
            /\ ret.val.items.center = R(TheGroup.center)
            /\ ret.val.items.span = R(TheGroup.span)
            /\ RMul(R(2), ret.val.items.start)
                 = R(2 * TheGroup.center - TheGroup.span)
            /\ RMul(R(2), ret.val.items.stop)
                 = R(2 * TheGroup.center + TheGroup.span)

(* A Center-Span record with an odd span has been decoded. *)
C3_Witness ==
    /\ Decoded /\ ~FlagSet /\ TheGroup.range_type = 2 /\ ValidStepType
    /\ TheGroup.center = 1 /\ TheGroup.span = 3
    /\ ~IsError(ret.val)
    /\ ret.val.items.start = <<-1, 2>>
    /\ ret.val.items.stop = <<5, 2>>

(* C4: for every decoded Sweep record, under 'Fixed step' step is the raw   *)
(* step and n_pts - 1 is span/step rounded to the nearest integer (a tie    *)
(* to the even one); under 'Fixed # of pts' n_pts is the raw n_pts and      *)
(* step * (n_pts - 1) = span; span is the canonical span of the record.     *)
C4_StepRule ==
    (Decoded /\ ~FlagSet /\ TheGroup.range_type \in {1, 2} /\ ValidStepType
        /\ ~IsError(ret.val))
    => LET d == ret.val.items
           k == d.n_pts - 1
           off == 2 * Abs(CanonicalSpan - k * TheGroup.step)
       IN  /\ d.tag = "Sweep"
           /\ d.span = R(CanonicalSpan)
           /\ TheGroup.step_type = 0 =>
                /\ d.step = R(TheGroup.step)
                /\ off <= Abs(TheGroup.step)
                /\ off = Abs(TheGroup.step) => k % 2 = 0
           /\ TheGroup.step_type = 1 =>
                /\ d.n_pts = TheGroup.n_pts
                /\ RMul(d.step, R(d.n_pts - 1)) = R(CanonicalSpan)

(* A 'Fixed step' record whose span is 3 steps of 1 has been decoded to 4   *)
(* points. *)
C4_Witness ==
    /\ Decoded /\ ~FlagSet /\ TheGroup.range_type = 1
    /\ TheGroup.step_type = 0 /\ TheGroup.step = 1
    /\ TheGroup.start = 1 /\ TheGroup.stop = 4
    /\ ~IsError(ret.val)
    /\ ret.val.items.n_pts = 4

(* C5: a record with the relation flag unset and range_type Single decodes, *)
(* whatever its step type and its other numeric fields, to range_type       *)
(* Single with start = stop = center = the single value, span = 0,          *)
(* step = 0 and n_pts = 1.                                                  *)
C5_SingleDecoded ==
    (Decoded /\ ~FlagSet /\ TheGroup.range_type = 0 /\ ValidStepType)
    => /\ ~IsError(ret.val)
       /\ ret.val.items.tag = "Single"
       /\ ret.val.items.start = R(TheGroup.single)
       /\ ret.val.items.stop = R(TheGroup.single)
       /\ ret.val.items.center = R(TheGroup.single)
       /\ ret.val.items.span = R(0)
       /\ ret.val.items.step = R(0)
       /\ ret.val.items.n_pts = 1

(* A Single record whose other raw fields are all non-zero has been         *)
(* decoded. *)
C5_Witness ==
    /\ Decoded /\ ~FlagSet /\ TheGroup.range_type = 0 /\ TheGroup.step_type = 1
    /\ TheGroup.single = 2 /\ TheGroup.start = 1 /\ TheGroup.stop = 1
    /\ TheGroup.span = 1 /\ TheGroup.step = 1 /\ TheGroup.n_pts = 1
    /\ ~IsError(ret.val)
    /\ ret.val.items.start = R(2)

(* C6: a record whose relation flag is set decodes to range_type Follow     *)
(* with the description built from the equation, the variable symbol and    *)
(* the source channel name, whatever its raw step-item fields: no value of  *)
(* them makes the decode fail.                                              *)
C6_FollowIgnoresItems ==
    (Decoded /\ FlagSet)
    => /\ ~IsError(ret.val)
       /\ ret.val.items = reevaluated_follow(file.steplist[TheGroup.name].equation,
                                             TheGroup.variable, TheGroup.channel_name)

-----------------------------------------------------------------------------
(* Properties of sweep discovery, under SpecDiscover. *)

Groups == 1..Len(file.stepconfig)

GroupFlagSet(i) == file.steplist[file.stepconfig[i].name].use_relations

(* What group i decodes to. *)
GroupDecoded(i) == get_stepconfig_by_index(file, i - 1, TRUE)

(* The groups decoding to Sweep: flag unset, Start-Stop or Center-Span. *)
SweptGroups ==
    {i \in Groups : ~IsError(GroupDecoded(i)) /\ ~GroupFlagSet(i)
                      /\ file.stepconfig[i].range_type \in {1, 2}}

(* C1: when VNAxANY or SAxANY is constructed over a container whose records *)
(* all decode: with no record decoding to Sweep info['sweep - name'] is     *)
(* None; with exactly one, info holds its name and its decoded start, stop  *)
(* and step; with two or more the constructor raises and no object is       *)
(* produced.  Records decoding to Single or Follow never count.             *)
C1_SweepDiscovery ==
    (ret.op \in {"VNAxANY", "SAxANY"}
        /\ \A i \in Groups : ~IsError(GroupDecoded(i)))
    => IF Cardinality(SweptGroups) = 0
       THEN exp.tag = ret.op /\ exp.info.sweep_name = None
       ELSE IF Cardinality(SweptGroups) = 1
       THEN LET i == CHOOSE k \in SweptGroups : TRUE
            IN  /\ exp.tag = ret.op
                /\ exp.info.sweep_name = file.stepconfig[i].name
                /\ exp.info.sweep_start = GroupDecoded(i).items.start
                /\ exp.info.sweep_stop = GroupDecoded(i).items.stop
                /\ exp.info.sweep_step = GroupDecoded(i).items.step
       ELSE /\ exp = NoExp
            /\ IsError(ret.val)
            /\ ret.val.exc = "Exception"

(* A container whose first record is a Single and whose second is a         *)
(* descending sweep has been loaded.                                        *)
C1_Witness ==
    /\ ret.op = "SAxANY"
    /\ Len(file.stepconfig) = 2
    /\ file.stepconfig[1].range_type = 0 /\ ~GroupFlagSet(1)
    /\ SweptGroups = {2}
    /\ exp.tag = "SAxANY"
    /\ exp.info.sweep_name = ChannelNames[2]
    /\ exp.info.sweep_start = R(1) /\ exp.info.sweep_stop = R(0)

-----------------------------------------------------------------------------
(* Properties of axis addressing, under Spec. *)

RLe(a, b) == ~RLt(b, a)

RMin(a, b) == IF RLt(a, b) THEN a ELSE b

RMax(a, b) == IF RLt(a, b) THEN b ELSE a

(* k is q rounded to the nearest integer, a tie to the even one. *)
IsRounded(k, q) ==
    LET off == RAbs(RSub(q, R(k)))
    IN  \/ RLt(off, <<1, 2>>)
        \/ off = <<1, 2>> /\ k % 2 = 0

IsObject == exp.tag \in {"VNAxANY", "SAxANY", "VNAxDC"}

(* The swept axis held by the object. *)
Swept == swept_axis(exp.tag, exp.info)

HasSweep == IsObject /\ Swept.name # None

OutOfRangeError(v) ==
    /\ IsError(v)
    /\ v.exc = "Exception"
    /\ v.args[3] = " is out of range"

(* C7: on an ascending or descending axis, s2ind, i2ind and f2ind raise the *)
(* out-of-range error exactly when the value is strictly below              *)
(* min(start, stop) or strictly above max(start, stop); for every value of  *)
(* the closed interval, the boundaries included, they return an index.      *)
C7_OutOfRangeExactly ==
    /\ (ret.op \in {"s2ind", "i2ind"} /\ HasSweep /\ Swept.start # Swept.stop)
       => LET v == ret.arg[1]
          IN  IF \/ RLt(v, RMin(Swept.start, Swept.stop))
                 \/ RGt(v, RMax(Swept.start, Swept.stop))
              THEN OutOfRangeError(ret.val)
              ELSE ret.val.tag = "Ok"
    /\ (ret.op = "f2ind" /\ exp.info.start_frequency # exp.info.stop_frequency)
       => LET v == ret.arg[1]
          IN  IF \/ RLt(v, RMin(exp.info.start_frequency, exp.info.stop_frequency))
                 \/ RGt(v, RMax(exp.info.start_frequency, exp.info.stop_frequency))
              THEN OutOfRangeError(ret.val)
              ELSE ret.val.tag = "Ok"

(* s2ind has returned an index for the stop value of a descending sweep. *)
C7_Witness ==
    /\ ret.op = "s2ind"
    /\ HasSweep
    /\ RGt(Swept.start, Swept.stop)
    /\ ret.arg[1] = Swept.stop
    /\ ret.val.tag = "Ok"

(* C8: for n_pts >= 2 and an ascending or descending axis,                  *)
(* f2ind(freq_sweep[i]) = i for every i in [0, n_pts) and                   *)
(* s2ind(s_sweep[i]) = i for every i in [0, n_traces).                      *)
C8_LeftInverse ==
    /\ (ret.op = "f2ind" /\ exp.info.n_points >= 2
          /\ exp.info.start_frequency # exp.info.stop_frequency)
       => \A i \in 0..(exp.info.n_points - 1) :
             exp.freq_sweep.data[i] = ret.arg[1] => ret.val = Ok(i)
    /\ (ret.op \in {"s2ind", "i2ind"} /\ HasSweep /\ exp.info.n_traces >= 2
          /\ Swept.start # Swept.stop)
       => \A i \in 0..(exp.info.n_traces - 1) :
             exp.s_sweep.data[i] = ret.arg[1] => ret.val = Ok(i)

(* C9: for every in-range v, f2ind(v) returns round((v - start)/step) with  *)
(* step the axis step held in info ('VNA - frequency step').                *)
C9_F2indByAxisStep ==
    (ret.op = "f2ind"
        /\ exp.info.n_points >= 2
        /\ ~IsZero(exp.info.frequency_step)
        /\ RLe(RMin(exp.info.start_frequency, exp.info.stop_frequency), ret.arg[1])
        /\ RLe(ret.arg[1], RMax(exp.info.start_frequency, exp.info.stop_frequency)))
    => /\ ret.val.tag = "Ok"
       /\ IsRounded(ret.val.v, RDiv(RSub(ret.arg[1], exp.info.start_frequency),
                                    exp.info.frequency_step))

(* C10: for a scalar cut v on the swept axis, get_traces_cut indexes the    *)
(* swept axis with (n_traces - 1) - round((v - start)/step), start and step *)
(* being the decoded parameters of the swept axis, whether the sweep is     *)
(* ascending or descending.                                                 *)
C10_StorageIndex ==
    (ret.op = "get_traces_cut" /\ ret.arg[1].kind = "Number" /\ ret.val.tag = "Ok")
    => /\ ret.val.v.s_acceeser.kind = "int"
       /\ IsRounded((exp.info.n_traces - 1) - ret.val.v.s_acceeser.i,
                    RDiv(RSub(ret.arg[1].v, Swept.start), Swept.step))

(* A scalar cut at the start value of a descending three-point sweep has    *)
(* used the last storage index.                                            *)
C10_Witness ==
    /\ ret.op = "get_traces_cut" /\ ret.arg[1].kind = "Number" /\ ret.val.tag = "Ok"
    /\ exp.sflip
    /\ exp.info.n_traces = 3
    /\ ret.arg[1].v = Swept.start
    /\ ret.val.v.s_acceeser = IntIndex(2)

-----------------------------------------------------------------------------
(* Properties of get_traces_cut, under Spec. *)

CutReturned == ret.op = "get_traces_cut" /\ ret.val.tag = "Ok"

(* Two arrays of the same shape with the same elements. *)
SameArray(A, B) == A.shape = B.shape /\ A.data = B.data

(* What a cut and the index object built for it must be on an axis of n     *)
(* indices: every index for None, one index for a number, an ordered range  *)
(* for a list.                                                              *)
SelectorOfCut(cut, sel, n) ==
    CASE cut.kind = "None"   -> Selected(sel, n) = [oob |-> FALSE, lo |-> 0, cnt |-> n]
      [] cut.kind = "Number" -> sel.kind = "int"
      [] cut.kind = "list"   -> sel.kind = "slice" /\ sel.start <= sel.stop

Reversed(cut) == IF cut.kind = "list" THEN CutList(cut.v1, cut.v0) ELSE cut

(* The number of cuts that are single numbers. *)
Scalars(scut, fcut) ==
    (IF scut.kind = "Number" THEN 1 ELSE 0) + (IF fcut.kind = "Number" THEN 1 ELSE 0)

(* C11: in a get_traces_cut that returns, the index object of each axis is  *)
(* the one the cut of that axis gives with no cut on the other axis; None   *)
(* selects every index of the axis, a number gives a single index and       *)
(* removes the axis from the results, a list [a, b] gives a range whose     *)
(* lower index does not exceed its upper index, and the call with the list  *)
(* reversed returns the same index objects and the same data.               *)
C11_Selectors ==
    CutReturned
    => LET scut == ret.arg[1]
           fcut == ret.arg[2]
           v == ret.val.v
       IN  /\ get_traces_cut(exp, scut, CutNone).tag = "Ok"
           /\ get_traces_cut(exp, scut, CutNone).v.s_acceeser = v.s_acceeser
           /\ get_traces_cut(exp, CutNone, fcut).tag = "Ok"
           /\ get_traces_cut(exp, CutNone, fcut).v.f_acceeser = v.f_acceeser
           /\ SelectorOfCut(scut, v.s_acceeser, exp.info.n_traces)
           /\ SelectorOfCut(fcut, v.f_acceeser, exp.info.n_points)
           /\ Len(v.cutted_trace.shape) = 2 - Scalars(scut, fcut)
           /\ Len(v.cutted_current.shape) = (IF scut.kind = "Number" THEN 0 ELSE 1)
           /\ Len(v.cutted_freq.shape) = (IF fcut.kind = "Number" THEN 0 ELSE 1)
           /\ get_traces_cut(exp, Reversed(scut), Reversed(fcut)) = ret.val

(* A list cut given upper endpoint first, with a single number on the other *)
(* axis, has returned a non-empty 1-d selection.                            *)
C11_Witness ==
    /\ CutReturned
    /\ ret.arg[1].kind = "list" /\ RGt(ret.arg[1].v0, ret.arg[1].v1)
    /\ ret.arg[2].kind = "Number"
    /\ Len(ret.val.v.cutted_trace.shape) = 1
    /\ ret.val.v.cutted_trace.shape[1] >= 1

(* C12: for a list cut [lower, upper] with both endpoints inside the        *)
(* measured interval, the selection has |index(lower) - index(upper)| + 1   *)
(* entries along that axis, the rows of both endpoints included, and is     *)
(* never empty, lower = upper included.                                     *)
C12_InclusiveRange ==
    CutReturned
    => /\ ret.arg[1].kind = "list"
          => ret.val.v.cutted_current.shape[1]
                = Abs(sweep2ind(exp, ret.arg[1].v0).v - sweep2ind(exp, ret.arg[1].v1).v) + 1
       /\ ret.arg[2].kind = "list"
          => ret.val.v.cutted_freq.shape[1]
                = Abs(f2ind(exp, ret.arg[2].v0).v - f2ind(exp, ret.arg[2].v1).v) + 1

(* The element at row r, column c of the matrix the index objects are       *)
(* applied to: rows are traces, last trace first unless the sweep descends; *)
(* columns are samples, reversed when the sampling axis descends.           *)
OrientedAt(r, c) ==
    <<IF exp.fflip THEN exp.info.n_points - 1 - c ELSE c,
      IF exp.sflip THEN r ELSE exp.info.n_traces - 1 - r>>

(* C13 as amended: the matrix get_traces_cut returns is the index objects   *)
(* applied to the trace matrix oriented by flipfunc(transpose=False): the   *)
(* raw matrix with traces as rows, reversed along the swept axis unless the *)
(* sweep descends and along the sampling axis when that axis descends.      *)
C13_SelectorsOnOrientedMatrix ==
    CutReturned
    => SameArray(ret.val.v.cutted_trace,
                 Index2(Arr2(exp.info.n_traces, exp.info.n_points, OrientedAt),
                        ret.val.v.s_acceeser, ret.val.v.f_acceeser))

(* Two list cuts have selected a 2-d block on an ascending sweep with a     *)
(* descending sampling axis.                                                *)
C13_Witness ==
    /\ CutReturned
    /\ ~exp.sflip /\ exp.fflip
    /\ ret.arg[1].kind = "list" /\ ret.arg[2].kind = "list"
    /\ ret.val.v.cutted_trace.shape = <<2, 2>>

(* The raw matrix with traces as rows: entry [j, i] is sample i of trace j. *)
RawAt(r, c) == <<c, r>>

(* C13: the matrix get_traces_cut returns is the raw trace matrix indexed   *)
(* by the index objects, with no reversal applied before them, for every    *)
(* flip-flag combination.                                                   *)
C13_SelectorsOnRawMatrix ==
    CutReturned
    => SameArray(ret.val.v.cutted_trace,
                 Index2(Arr2(exp.info.n_traces, exp.info.n_points, RawAt),
                        ret.val.v.s_acceeser, ret.val.v.f_acceeser))

-----------------------------------------------------------------------------
(* Properties of the orientation function, under Spec. *)

Flipped == ret.op = "flipfunc"

(* The datum at position k of an axis of n, reversed or not. *)
Rev(reversed, n, k) == IF reversed THEN n - 1 - k ELSE k

(* N is the matrix M of samples by traces, reversed along the sample axis   *)
(* iff frev and along the sweep axis iff srev, laid out as M is or with the *)
(* sweep axis as rows.                                                      *)
IsReversal(N, M, frev, srev) ==
    \/ /\ N.shape = M.shape
       /\ \A i \in 0..(M.shape[1] - 1), j \in 0..(M.shape[2] - 1) :
             N.data[i][j] = M.data[Rev(frev, M.shape[1], i)][Rev(srev, M.shape[2], j)]
    \/ /\ N.shape = <<M.shape[2], M.shape[1]>>
       /\ \A j \in 0..(M.shape[2] - 1), i \in 0..(M.shape[1] - 1) :
             N.data[j][i] = M.data[Rev(frev, M.shape[1], i)][Rev(srev, M.shape[2], j)]

(* C14 as amended: flipfunc with transpose=False returns the matrix with    *)
(* the sweep axis as rows and the sample axis as columns, reversed along    *)
(* the sample axis iff the sampling axis descends (_fflip) and reversed     *)
(* along the sweep axis iff the sweep does not descend (not _sflip).        *)
C14_NoTransposeReversals ==
    (Flipped /\ ~ret.arg[1])
    => /\ ret.val.v.shape = <<ret.arg[2].shape[2], ret.arg[2].shape[1]>>
       /\ IsReversal(ret.val.v, ret.arg[2], exp.fflip, ~exp.sflip)

(* flipfunc(transpose=False) has been applied to a 3 x 2 matrix by an       *)
(* object whose sweep descends and whose sampling axis ascends.             *)
C14_Witness ==
    /\ Flipped /\ ~ret.arg[1]
    /\ exp.sflip /\ ~exp.fflip
    /\ ret.arg[2].shape = <<3, 2>>
    /\ ret.val.v.shape = <<2, 3>>

(* C14: flipfunc with transpose=False reverses the matrix along the sample  *)
(* axis iff axis_flip is true and along the sweep axis iff sweep_flip is    *)
(* true, for all four flag combinations.                                    *)
C14_RuleTable ==
    (Flipped /\ ~ret.arg[1])
    => IsReversal(ret.val.v, ret.arg[2], exp.fflip, exp.sflip)

(* C15: for transpose=True, flipfunc applied to its own output returns the  *)
(* matrix it started from, same shape and same element at every position,   *)
(* for every combination of the flip flags.                                 *)
C15_SelfInverse ==
    (ret.op = "flipfunc(flipfunc)" /\ ret.arg[1])
    => SameArray(ret.val.v, ret.arg[2])

(* The transpose=True flipfunc of an object that reverses both axes has     *)
(* been applied twice to a 2 x 3 matrix.                                    *)
C15_Witness ==
    /\ ret.op = "flipfunc(flipfunc)" /\ ret.arg[1]
    /\ exp.sflip /\ ~exp.fflip
    /\ ret.arg[2].shape = <<2, 3>>
    /\ ~SameArray(flipfunc(exp, TRUE, ret.arg[2]), ret.arg[2])

(* a precedes b on an axis from start to stop: below it, or equal on an     *)
(* axis of one value.                                                       *)
Increases(a, b, start, stop) == RLt(a, b) \/ (a = b /\ start = stop)

(* C16: flipfunc applied to the trace matrix of the object (entry [i, j] is *)
(* sample i of trace j) gives a matrix whose horizontal physical value      *)
(* increases with the column index and whose vertical physical value        *)
(* increases from the last row to the first; with transpose=False the rows  *)
(* are the swept axis and the columns the sample axis, with transpose=True  *)
(* the rows are the sample axis and the columns the swept axis.             *)
C16_DisplayOrientation ==
    (Flipped /\ ret.arg[2] = exp.traces)
    => LET N == ret.val.v
           transpose == ret.arg[1]
           fval(x) == exp.freq_sweep.data[x[1]]
           sval(x) == exp.s_sweep.data[x[2]]
           H(x) == IF transpose THEN sval(x) ELSE fval(x)
           V(x) == IF transpose THEN fval(x) ELSE sval(x)
           h0 == IF transpose THEN Swept.start ELSE exp.info.start_frequency
           h1 == IF transpose THEN Swept.stop ELSE exp.info.stop_frequency
           v0 == IF transpose THEN exp.info.start_frequency ELSE Swept.start
           v1 == IF transpose THEN exp.info.stop_frequency ELSE Swept.stop
       IN  /\ N.shape = IF transpose THEN <<exp.info.n_points, exp.info.n_traces>>
                        ELSE <<exp.info.n_traces, exp.info.n_points>>
           /\ \A r \in 0..(N.shape[1] - 1), c \in 0..(N.shape[2] - 1) :
                 /\ H(N.data[r][c]) = H(N.data[0][c])
                 /\ V(N.data[r][c]) = V(N.data[r][0])
                 /\ c + 1 < N.shape[2]
                    => Increases(H(N.data[r][c]), H(N.data[r][c + 1]), h0, h1)
                 /\ r + 1 < N.shape[1]
                    => Increases(V(N.data[r + 1][c]), V(N.data[r][c]), v0, v1)

(* The transpose=True flipfunc has oriented a 3 x 3 trace matrix measured   *)
(* with a descending sweep and a descending sampling axis.                  *)
C16_Witness ==
    /\ Flipped /\ ret.arg[1] /\ ret.arg[2] = exp.traces
    /\ exp.sflip /\ exp.fflip
    /\ ret.val.v.shape = <<3, 3>>

-----------------------------------------------------------------------------
(* Properties of debackground, under SpecDebg. *)

(* r is the outcome of a debackground of e whose background file loads. *)
Debackgrounded(r, e) ==
    /\ r.op = "debackground"
    /\ ~IsError(background(e.tag, r.arg[1]))

(* The background of r has the sample and trace counts of the data of e. *)
SameCounts(r, e) ==
    /\ r.arg[1].npts = e.info.n_points
    /\ r.arg[1].ntrc = e.info.n_traces

Diagonal == {"S11", "S22", "S33", "S44"}

(* C17: debackground of VNAxANY and VNAxDC with a background of the shape   *)
(* of the data returns a matrix of that shape whose every element is        *)
(* data/background at the same position in mode '/', and in mode '-'        *)
(* data - background when the trace is S11, S22, S33 or S44 and             *)
(* 1 + data - background otherwise.                                         *)
C17_Debackground ==
    (Debackgrounded(ret, exp) /\ exp.tag \in {"VNAxANY", "VNAxDC"}
        /\ SameCounts(ret, exp) /\ ret.arg[2] \in {"/", "-"})
    => LET op == IF ret.arg[2] = "/" THEN "/"
                 ELSE IF exp.info.trace \in Diagonal THEN "-" ELSE "1+-"
           bg == get_traces(ret.arg[1])
       IN  /\ ret.val.tag = "Ok"
           /\ ret.val.v.shape = exp.traces.shape
           /\ \A i \in 0..(exp.info.n_points - 1), j \in 0..(exp.info.n_traces - 1) :
                 ret.val.v.data[i][j]
                    = [op |-> op, data |-> exp.traces.data[i][j], bg |-> bg.data[i][j]]

(* The difference mode has returned 1 + data - background for an S21        *)
(* measurement of 2 samples by 3 traces.                                    *)
C17_Witness ==
    /\ Debackgrounded(ret, exp) /\ exp.tag = "VNAxDC"
    /\ SameCounts(ret, exp) /\ ret.arg[2] = "-"
    /\ exp.info.trace = "S21"
    /\ ret.val.tag = "Ok"
    /\ ret.val.v.shape = <<2, 3>>
    /\ ret.val.v.data[1][2].op = "1+-"

(* Two counts numpy cannot broadcast: different, and neither is 1. *)
Mismatch(a, b) == a # b /\ a # 1 /\ b # 1

-----------------------------------------------------------------------------
(* Immutability of the experiment object, under Spec. *)

Operations ==
    {"s2ind", "i2ind", "f2ind", "get_traces_cut", "get_2dploting_objs",
     "flipfunc", "flipfunc(flipfunc)", "debackground"}

-----------------------------------------------------------------------------
(* Invalid encodings, under SpecDecode. *)

(* The last call read the record of the group. *)
RecordRead ==
    \/ ret.op = "get_stepconfig_by_index" /\ ret.arg[1] = 0
    \/ ret.op = "get_stepconfig_by_name" /\ ret.arg[1] = TheGroup.name

(* The first enum field of the record whose raw value is outside its enum,  *)
(* or None.                                                                 *)
OffendingField ==
    IF TheGroup.range_type \notin {0, 1, 2} THEN "range_type"
    ELSE IF TheGroup.step_type \notin {0, 1} THEN "step_type"
    ELSE None

(* C20: reading a record whose range_type is outside {Single, Start-Stop,   *)
(* Center-Span} or whose step_type is outside {Fixed step, Fixed # of pts}  *)
(* raises an error whose arguments are the name of the offending field and  *)
(* its raw value, and returns no decoded parameters.                        *)
C20_InvalidEncodingNamesField ==
    (RecordRead /\ OffendingField # None)
    => /\ IsError(ret.val)
       /\ Len(ret.val.args) = 2
       /\ ret.val.args[1] = OffendingField
       /\ ret.val.args[2] = (IF OffendingField = "range_type" THEN TheGroup.range_type
                             ELSE TheGroup.step_type)

-----------------------------------------------------------------------------
(* Errors of sweep discovery, under SpecDiscover. *)

(* Record i of the container, as the group it was built from. *)
GroupOf(i) ==
    LET g == file.stepconfig[i]
    IN  [items |-> Items(g.range_type, g.step_type, g.single, g.start, g.stop,
                         g.center, g.span, g.step, g.n_pts),
         rel |-> [use_relations |-> file.steplist[g.name].use_relations,
                  equation |-> file.steplist[g.name].equation,
                  variable |-> g.variable, channel_name |-> g.channel_name,
                  use_lookup |-> g.use_lookup]]

(* The container with the same records under the next channel names: an     *)
(* unswept record is put in front of them.                                  *)
Renamed ==
    MkFile(<<Unswept>> \o [i \in Groups |-> GroupOf(i)],
           file.traces, file.t0, file.dt, file.npts, file.ntrc)

(* C21: when two or more records decode to Sweep, the error VNAxANY and     *)
(* SAxANY raise lists the names of the swept channels: it is not the error  *)
(* raised for the same records under other channel names.                   *)
C21_AmbiguityNamesChannels ==
    (ret.op \in {"VNAxANY", "SAxANY"}
        /\ (\A i \in Groups : ~IsError(GroupDecoded(i)))
        /\ Cardinality(SweptGroups) >= 2)
    => /\ IsError(ret.val)
       /\ ret.val # (IF ret.op = "VNAxANY" THEN VNAxANY_init(Renamed)
                     ELSE SAxANY_init(Renamed))

(* The DC-supply records of the container that decode to Sweep. *)
SweptSupplies ==
    {i \in SweptGroups :
        \E k \in 1..Len(dc_supply_no) :
            file.stepconfig[i].name = dc_supply_name[dc_supply_no[k]]}

(* C23: when two or more DC-supply channels decode to Sweep, constructing   *)
(* VNAxDC raises and produces no object.                                    *)
C23_SeveralSweptSupplies ==
    (ret.op = "VNAxDC"
        /\ (\A i \in Groups : ~IsError(GroupDecoded(i)))
        /\ Cardinality(SweptSupplies) >= 2)
    => /\ IsError(ret.val)
       /\ exp = NoExp

-----------------------------------------------------------------------------
(* SAxANY.debackground, under SpecDebg. *)

(* C25: SAxANY.debackground with a background of the shape of the data      *)
(* returns, in mode '/', the matrix of data/background and, in mode '-',    *)
(* the matrix of data - background, element by element; neither mode        *)
(* raises.                                                                  *)
C25_SADebackground ==
    (Debackgrounded(ret, exp) /\ exp.tag = "SAxANY"
        /\ SameCounts(ret, exp) /\ ret.arg[2] \in {"/", "-"} /\ ~ret.arg[3])
    => LET bg == get_traces(ret.arg[1])
       IN  /\ ret.val.tag = "Ok"
           /\ ret.val.v.shape = exp.traces.shape
           /\ \A i \in 0..(exp.info.n_points - 1), j \in 0..(exp.info.n_traces - 1) :
                 ret.val.v.data[i][j]
                    = [op |-> ret.arg[2], data |-> exp.traces.data[i][j],
                       bg |-> bg.data[i][j]]

-----------------------------------------------------------------------------
(* The decoded grid, under SpecDecode. *)

(* C29: a record decoded to Sweep whose span is an exact multiple of its    *)
(* step has span >= 0 and start + (n_pts - 1) * step = stop, whether        *)
(* Start-Stop or Center-Span, ascending or descending.                      *)
C29_SignedGrid ==
    (Decoded /\ ~FlagSet /\ ~IsError(ret.val) /\ ret.val.items.tag = "Sweep"
        /\ ~IsZero(ret.val.items.step)
        /\ RDiv(ret.val.items.span, ret.val.items.step)[2] = 1)
    => /\ ~RLt(ret.val.items.span, R(0))
       /\ RAdd(ret.val.items.start,
               RMul(R(ret.val.items.n_pts - 1), ret.val.items.step))
             = ret.val.items.stop

-----------------------------------------------------------------------------
(* An object with no swept quantity, under Spec. *)

NoSweepObject == exp.tag \in {"VNAxANY", "SAxANY"} /\ exp.info.sweep_name = None

NotSupported(v) ==
    /\ IsError(v)
    /\ v.exc = "Exception"
    /\ v.args \in {<<"s2ind not supported for data without sweep quantity.">>,
                   <<"get_traces_cut not supported for data without sweep quantity.">>,
                   <<"get_2dploting_objs is not supported for data without sweep quantity.">>}

(* C24: a container with no Sweep record loads in VNAxANY and SAxANY with   *)
(* the sweep name None; on that object f2ind returns an index for every     *)
(* value of the sampling interval, and s2ind, get_traces_cut with any       *)
(* arguments and get_2dploting_objs raise the 'not supported' error,        *)
(* whatever was called before.                                              *)
C24_NoSweepObject ==
    /\ (ret.op \in {"VNAxANY", "SAxANY"} /\ SweptGroups = {}
          /\ \A i \in Groups : ~IsError(GroupDecoded(i)))
       => ret.val.tag = "Ok" /\ NoSweepObject
    /\ (NoSweepObject /\ ret.op \in {"s2ind", "get_traces_cut", "get_2dploting_objs"})
       => NotSupported(ret.val)
    /\ (NoSweepObject /\ ret.op = "f2ind"
          /\ exp.info.start_frequency # exp.info.stop_frequency
          /\ RLe(RMin(exp.info.start_frequency, exp.info.stop_frequency), ret.arg[1])
          /\ RLe(ret.arg[1], RMax(exp.info.start_frequency, exp.info.stop_frequency)))
       => ret.val.tag = "Ok"

(* s2ind has been refused on an object with no swept quantity. *)
C24_Witness ==
    /\ NoSweepObject
    /\ ret.op = "s2ind"
    /\ NotSupported(ret.val)

-----------------------------------------------------------------------------
(* What get_traces_cut returns, under Spec. *)

(* The returned values as functions of the position, a removed axis having  *)
(* the one position 0.                                                      *)
CutRows(v) == IF v.cutted_current.shape = <<>> THEN 1 ELSE v.cutted_current.shape[1]

CutCols(v) == IF v.cutted_freq.shape = <<>> THEN 1 ELSE v.cutted_freq.shape[1]

CurrentAt(v, r) ==
    IF v.cutted_current.shape = <<>> THEN v.cutted_current.data
    ELSE v.cutted_current.data[r]

FreqAt(v, c) ==
    IF v.cutted_freq.shape = <<>> THEN v.cutted_freq.data ELSE v.cutted_freq.data[c]

TraceAt(v, r, c) ==
    CASE v.cutted_current.shape = <<>> /\ v.cutted_freq.shape = <<>> -> v.cutted_trace.data
      [] v.cutted_current.shape = <<>> /\ v.cutted_freq.shape # <<>> -> v.cutted_trace.data[c]
      [] v.cutted_current.shape # <<>> /\ v.cutted_freq.shape = <<>> -> v.cutted_trace.data[r]
      [] OTHER -> v.cutted_trace.data[r][c]

(* C26: for v = s_sweep[k] on an ascending or descending sweep, of either   *)
(* step type, get_traces_cut(scut=v) returns v as the swept value and       *)
(* trace k of the raw matrix, its samples in the order of the oriented      *)
(* sampling axis.                                                           *)
C26_OnGridCut ==
    (ret.op = "get_traces_cut" /\ HasSweep /\ Swept.start # Swept.stop
        /\ ret.arg[1].kind = "Number" /\ ret.arg[2].kind = "None")
    => \A k \in 0..(exp.info.n_traces - 1) :
          exp.s_sweep.data[k] = ret.arg[1].v
          => /\ ret.val.tag = "Ok"
             /\ ret.val.v.cutted_current = Arr0(ret.arg[1].v)
             /\ ret.val.v.cutted_trace.shape = <<exp.info.n_points>>
             /\ \A c \in 0..(exp.info.n_points - 1) :
                   ret.val.v.cutted_trace.data[c]
                      = <<Rev(exp.fflip, exp.info.n_points, c), k>>

(* C27: the three values get_traces_cut returns agree: the element at       *)
(* (r, c) of the returned matrix is the raw datum of a trace acquired at    *)
(* the swept value returned at position r and of a sample taken at the      *)
(* sample value returned at position c.                                     *)
C27_ValuesAgree ==
    CutReturned
    => LET v == ret.val.v
       IN  \A r \in 0..(CutRows(v) - 1), c \in 0..(CutCols(v) - 1) :
              \E i \in 0..(exp.info.n_points - 1), j \in 0..(exp.info.n_traces - 1) :
                 /\ exp.freq_sweep.data[i] = FreqAt(v, c)
                 /\ exp.s_sweep.data[j] = CurrentAt(v, r)
                 /\ TraceAt(v, r, c) = <<i, j>>

(* A cut has returned a 2-d block of an ascending sweep over three distinct *)
(* values, with a descending sampling axis of distinct values.              *)
C27_Witness ==
    /\ CutReturned
    /\ exp.info.n_traces = 3 /\ RLt(Swept.start, Swept.stop)
    /\ exp.fflip
    /\ CutRows(ret.val.v) >= 2 /\ CutCols(ret.val.v) >= 2
    /\ ret.val.v.cutted_trace.shape = <<2, 2>>

(* C28: an index returned for a value of the measured interval is in        *)
(* bounds: f2ind(v) lies in [0, n_pts - 1] and the storage index            *)
(* (n_traces - 1) - s2ind(v) lies in [0, n_traces - 1], on ascending and    *)
(* descending axes.                                                         *)
C28_IndexInBounds ==
    /\ (ret.op = "f2ind" /\ ret.val.tag = "Ok")
       => ret.val.v \in 0..(exp.info.n_points - 1)
    /\ (ret.op \in {"s2ind", "i2ind"} /\ HasSweep /\ ret.val.tag = "Ok")
       => s_acess_ind(exp.info.n_traces, ret.val.v) \in 0..(exp.info.n_traces - 1)

-----------------------------------------------------------------------------
(* Repeated decoding of the records of one container (SpecRepeat).          *)

step_item_dict_reevaluated_in_place(f, step_item_dict, relparm_dict, stepconfig_groupname) ==
    LET result_dict == get_reevaluated_step_item(f, step_item_dict, relparm_dict,
                                                 stepconfig_groupname)
    IN  IF IsError(result_dict) \/ result_dict.tag = "Follow" THEN step_item_dict
        ELSE [step_item_dict EXCEPT !.start = result_dict.start,
                                    !.stop = result_dict.stop,
                                    !.step = result_dict.step]

(* The dictionary passed to _get_reevaluated_step_item, after the call:     *)
(* the decoder fills a new result_dict and only reads step_item_dict.       *)
step_item_dict_after(f, step_item_dict, relparm_dict, stepconfig_groupname) ==
    step_item_dict

(* The raw step item get_stepconfig_by_index reads from the file, with its  *)
(* enums converted; none when an enum value has no name.                    *)
stepitem_dict_read(f, index) ==
    LET g == f.stepconfig[index + 1]
    IN  IF \/ g.range_type \notin DOMAIN enum_mapping.range_type
           \/ g.step_type \notin DOMAIN enum_mapping.step_type
        THEN <<>>
        ELSE <<[tag |-> "Raw",
                range_type |-> enum_mapping.range_type[g.range_type],
                step_type  |-> enum_mapping.step_type[g.step_type]]
               @@ raw_stepitem(g)>>

(* get_stepconfig_by_index(index) on a record decoded fewer than            *)
(* MaxDecodes times: the file is opened for reading only.  The call keeps,  *)
(* next to its result, the dictionary it passed to the decoder before and   *)
(* after the decoding; decoded keeps the first result of every record and   *)
(* the number of times it was decoded.                                      *)
DecodeRecord ==
    /\ ret = NoRet
    /\ \E index \in DOMAIN stepconfig_map(file) :
          /\ index \in DOMAIN decoded => decoded[index].times < MaxDecodes
          /\ \E val \in {get_stepconfig_by_index(file, index, TRUE)},
                passed \in {stepitem_dict_read(file, index)} :
                /\ ret' = [op |-> "get_stepconfig_by_index", arg |-> <<index, TRUE>>,
                           val |-> val,
                           passed |-> passed,
                           after |-> [k \in DOMAIN passed |->
                                         step_item_dict_after(file, passed[k],
                                             [variable |-> file.stepconfig[index + 1].variable,
                                              channel_name |-> file.stepconfig[index + 1].channel_name,
                                              use_lookup |-> file.stepconfig[index + 1].use_lookup],
                                             stepconfig_map(file)[index])]]
                /\ decoded' = IF index \in DOMAIN decoded
                              THEN [decoded EXCEPT ![index].times = @ + 1]
                              ELSE (index :> [first |-> val, times |-> 1]) @@ decoded
    /\ UNCHANGED <<file, exp, debg, yoko>>

NextRepeat == DecodeRecord \/ Return

SpecRepeat == InitDiscover /\ [][NextRepeat]_vars

-----------------------------------------------------------------------------
(* The sweep threads of one YOKOGAWA instrument (SpecSweep).  Levels are    *)
(* counted in units of the resolution of the instrument.  yoko holds the    *)
(* source level of the instrument, the threads sweep has created, and the   *)
(* position of the main thread in wait_for_sweeping.                        *)

Threads == {1, 2}

arange_through_stop(start, stop, step) ==
    LET n == IF (stop - start) * step <= 0 THEN 0
             ELSE ((Abs(stop - start) + Abs(step) - 1) \div Abs(step)) + 1
    IN  [i \in 1..n |-> start + (i - 1) * step]

(* np.arange(start, stop, step), step # 0: ceil((stop - start)/step)        *)
(* values from start, stop excluded.                                        *)
arange(start, stop, step) ==
    LET n == IF (stop - start) * step <= 0 THEN 0
             ELSE (Abs(stop - start) + Abs(step) - 1) \div Abs(step)
    IN  [i \in 1..n |-> start + (i - 1) * step]

(* The source level after output_value(value): ':SOUR:LEV value'. *)
output_value(value) == value

(* The value get_output_value reads: the answer to ':SOUR:LEV?'. *)
get_output_value(y) == y.level

(* A thread object sweep has not created yet. *)
NoThread ==
    [pc |-> "new", goal_value |-> 0, delta_value |-> 0, curr_value |-> 0,
     source_levels |-> <<>>, written |-> <<>>, concurrent |-> FALSE]

(* A thread that is running inner. *)
Running(th) == th.pc \in {"started", "loop", "final"}

NoWait == [on |-> FALSE, threads |-> <<>>, k |-> 0]

InitSweep ==
    /\ file = NoFile
    /\ exp = NoExp
    /\ ret = NoRet
    /\ debg = NoFile
    /\ decoded = NoDecoded
    /\ yoko \in {[tag |-> "YOKOGAWA", level |-> level,
                  thread |-> [t \in Threads |-> NoThread], wait |-> NoWait] :
                    level \in 0..MaxLevel}

(* sweep(goal_value, delta_time, delta_value) called by the main thread:    *)
(* the thread is created and started.  concurrent records that the thread   *)
(* ran while another sweep thread of the instrument was running.            *)
Sweep(t) ==
    /\ ~yoko.wait.on
    /\ yoko.thread[t].pc = "new"
    /\ \E goal_value \in 0..MaxLevel, delta_value \in 1..MaxDelta :
          LET others == \E u \in Threads \ {t} : Running(yoko.thread[u])
          IN  yoko' = [yoko EXCEPT
                  !.thread = [u \in Threads |->
                      IF u = t
                      THEN [NoThread EXCEPT !.pc = "started",
                                            !.goal_value = goal_value,
                                            !.delta_value = delta_value,
                                            !.concurrent = others]
                      ELSE IF Running(yoko.thread[u])
                      THEN [yoko.thread[u] EXCEPT !.concurrent = TRUE]
                      ELSE yoko.thread[u]]]
    /\ UNCHANGED <<file, exp, ret, debg, decoded>>

(* inner, to the loop: the level is read and the levels are laid out. *)
InnerRead(t) ==
    /\ yoko.thread[t].pc = "started"
    /\ LET th == yoko.thread[t]
           curr_value == get_output_value(yoko)
           delta_value == IF th.goal_value < curr_value THEN -th.delta_value
                          ELSE th.delta_value
       IN  yoko' = [yoko EXCEPT !.thread[t] =
                       [th EXCEPT !.pc = "loop",
                                  !.curr_value = curr_value,
                                  !.delta_value = delta_value,
                                  !.source_levels =
                                      arange(curr_value, th.goal_value, delta_value)]]
    /\ UNCHANGED <<file, exp, ret, debg, decoded>>

(* One turn of the loop: the next level is written, then the thread sleeps. *)
InnerLevel(t) ==
    /\ yoko.thread[t].pc = "loop"
    /\ yoko.thread[t].source_levels # <<>>
    /\ LET th == yoko.thread[t]
           level == Head(th.source_levels)
       IN  yoko' = [yoko EXCEPT !.level = output_value(level),
                                !.thread[t] =
                                    [th EXCEPT !.source_levels = Tail(@),
                                               !.written = Append(@, level)]]
    /\ UNCHANGED <<file, exp, ret, debg, decoded>>

(* The sleep after the loop. *)
InnerSleep(t) ==
    /\ yoko.thread[t].pc = "loop"
    /\ yoko.thread[t].source_levels = <<>>
    /\ yoko' = [yoko EXCEPT !.thread[t].pc = "final"]
    /\ UNCHANGED <<file, exp, ret, debg, decoded>>

(* The last statement of inner: the goal is written and the thread ends. *)
InnerGoal(t) ==
    /\ yoko.thread[t].pc = "final"
    /\ LET th == yoko.thread[t]
       IN  yoko' = [yoko EXCEPT !.level = output_value(th.goal_value),
                                !.thread[t] =
                                    [th EXCEPT !.pc = "done",
                                               !.written = Append(@, th.goal_value)]]
    /\ UNCHANGED <<file, exp, ret, debg, decoded>>

Inner(t) == InnerRead(t) \/ InnerLevel(t) \/ InnerSleep(t) \/ InnerGoal(t)

(* wait_for_sweeping, or thread.join() for one thread: the main            *)
(* thread starts joining the threads it was given, in their order.          *)
WaitForSweeping ==
    /\ ~yoko.wait.on
    /\ \E threads \in {<<1>>, <<2>>, <<1, 2>>, <<2, 1>>} :
          /\ \A k \in 1..Len(threads) : yoko.thread[threads[k]].pc # "new"
          /\ yoko' = [yoko EXCEPT !.wait = [on |-> TRUE, threads |-> threads, k |-> 1]]
    /\ UNCHANGED <<file, exp, ret, debg, decoded>>

(* thread.join() returns once the thread has ended; after the last join     *)
(* wait_for_sweeping returns.                                               *)
Join ==
    /\ yoko.wait.on
    /\ yoko.thread[yoko.wait.threads[yoko.wait.k]].pc = "done"
    /\ yoko' = [yoko EXCEPT !.wait.k = @ + 1,
                            !.wait.on = yoko.wait.k < Len(yoko.wait.threads)]
    /\ UNCHANGED <<file, exp, ret, debg, decoded>>

NextSweep ==
    \/ \E t \in Threads : Sweep(t)
    \/ \E t \in Threads : Inner(t)
    \/ WaitForSweeping
    \/ Join

SpecSweep == InitSweep /\ [][NextSweep]_vars

(* A started thread is scheduled and its sleeps end; a join whose thread    *)
(* has ended returns.                                                       *)
SpecSweepFair ==
    /\ SpecSweep
    /\ \A t \in Threads : WF_vars(Inner(t))
    /\ WF_vars(Join)

-----------------------------------------------------------------------------
(* Properties of the sweep threads, under SpecSweepFair. *)

(* x lies between a and b, the ends included. *)
Between(x, a, b) == (a <= x /\ x <= b) \/ (b <= x /\ x <= a)

(* The levels of thread t from the level it read: the level read, then the  *)
(* levels written so far.                                                   *)
Path(t) == <<yoko.thread[t].curr_value>> \o yoko.thread[t].written

(* Thread t has read the level and no other sweep thread ran beside it. *)
SoleWriter(t) ==
    /\ yoko.thread[t].pc \in {"loop", "final", "done"}
    /\ ~yoko.thread[t].concurrent

(* The levels of a sole writer go from the level read toward the goal,      *)
(* never beyond it, in steps of at most the step size.                      *)
SweepsTowardGoal(t) ==
    LET th == yoko.thread[t]
        path == Path(t)
    IN  \A k \in 1..Len(path) :
           /\ Between(path[k], th.curr_value, th.goal_value)
           /\ k > 1 => /\ Abs(path[k] - path[k - 1]) <= Abs(th.delta_value)
                       /\ Between(path[k], path[k - 1], th.goal_value)

(* A sole writer that has ended wrote the goal last, and the instrument is  *)
(* at the goal until another sweep is started.                              *)
EndsAtGoal(t) ==
    yoko.thread[t].pc = "done"
    => /\ yoko.thread[t].written[Len(yoko.thread[t].written)] = yoko.thread[t].goal_value
       /\ (\A u \in Threads \ {t} : yoko.thread[u].pc = "new")
          => yoko.level = yoko.thread[t].goal_value

(* The joins made so far by wait_for_sweeping returned from ended threads. *)
JoinedAfterFinalWrite ==
    \A k \in 1..Len(yoko.wait.threads) :
       k < yoko.wait.k
       => LET th == yoko.thread[yoko.wait.threads[k]]
          IN  th.pc = "done" /\ th.written[Len(th.written)] = th.goal_value

(* Once every thread has ended the level is the goal of one of them. *)
EndsAtSomeGoal ==
    (\A t \in Threads : yoko.thread[t].pc = "done")
    => \E t \in Threads : yoko.level = yoko.thread[t].goal_value

SweepSafety ==
    /\ \A t \in Threads : SoleWriter(t) => SweepsTowardGoal(t) /\ EndsAtGoal(t)
    /\ JoinedAfterFinalWrite
    /\ EndsAtSomeGoal

C30_WitnessConcurrent ==
    /\ \A t \in Threads : yoko.thread[t].pc = "done" /\ yoko.thread[t].concurrent
    /\ yoko.thread[1].goal_value # yoko.thread[2].goal_value
    /\ yoko.level = yoko.thread[1].goal_value

====
